---- MODULE Spec2Model ----
(***************************************************************************)
(* LoopMaker backend (src/backend/main.py): generation job orchestration.  *)
(*                                                                         *)
(* One event loop runs the protocol sessions (WebSocket /ws/generate and   *)
(* HTTP /generate); a ThreadPoolExecutor of two workers runs the blocking  *)
(* _generate_acestep_sync.  A session step is one stretch of the coroutine *)
(* between two accesses to state it shares with a worker thread (the       *)
(* progress queue, the future, the cancellation event); a worker step is   *)
(* one stretch of _generate_acestep_sync between two such accesses (a      *)
(* checkpoint, a publish, a read or write of the module globals).          *)
(*                                                                         *)
(* Progress values are in thousandths (0.05 is 50), durations in seconds.  *)
(***************************************************************************)
EXTENDS Integers, Sequences, FiniteSets, TLC

\* ------------------------------------------------------------------ bounds

\* How often the model collaborator invokes the progress callback in one call.
MaxCallbacks == 2
\* How many heartbeats one session sends while it waits for its job.
MaxHeartbeats == 1
\* samples of an audio buffer
BufferLen == 2
\* How many keep-alive ticks one download stream sends: past the tick at which
\* the progress reaches its cap.
MaxTicks == 122

\* ------------------------------------------------------- program constants

\* MODEL_REGISTRY["acestep"].max_duration
MaxDuration == 240
\* ThreadPoolExecutor(max_workers=2)
MaxWorkers == 2
\* batch_size = max(1, min(request.batch_size, 8))
MinBatch == 1
MaxBatch == 8
\* duration = 30.0  # fallback, when the source audio cannot be read
FallbackDuration == 30
\* Optional[float] = None of repainting_end; a length that wavfile.read cannot give
NoEnd == -1
Unreadable == -1
\* effective_seed = ... & 0x7FFFFFFF
SeedMask == 2147483647
DraftSteps == 4
FastSteps == 8
QualitySteps == 50
\* audio_float / max_val * 0.95, in hundredths; audio_float * 32767; np.int16
Headroom == 95
FullScale == 32767
Int16Min == -32768
Int16Max == 32767
\* repainting_start: None
NoStart == -1
\* ref_audio_strength and audio_cover_strength, in hundredths: 0.5, 1.0
DefaultStrength == 50
FullStrength == 100
\* progress of the download stream, in thousandths: 0.15, 0.005, 0.75
ProgressStart == 150
ProgressPerTick == 5
ProgressCap == 750

\* ------------------------------------------------------------- input sets

\* Client connections: each becomes a WebSocket session or an HTTP request.
Sessions == {"s1", "s2", "s3"}
\* The connections of the specification of one session alone
Solo == {"s1"}
\* The connections of the specification of the worker pool
Pool == {"s1", "s2"}
\* The connection of the specification of the backlog that opens a WebSocket
Waiters == {"s3"}
\* The connections of the specification of the unload: one that generates,
\* the others that unload
Loaders == {"s1"}
Unloaders == {"s2", "s3"}

KnownModels == {"acestep"}
Models == {"acestep", "musicgen"}
Durations == {0, MaxDuration, MaxDuration + 1}
TaskTypes == {"text2music", "cover", "repaint"}
\* source_audio_path: absent, a file that exists, a path with no file
SourcePaths == {"None", "exists", "missing"}
RepaintEnds == {NoEnd, 10, MaxDuration + 60}
BatchSizes == {1, 2}
\* quality_mode is any string: the three tiers and one that is none of them
QualityModes == {"draft", "fast", "quality", "turbo"}
RepaintStarts == {NoStart, 5}
Strengths == {DefaultStrength, 80}
\* task_type is any string: the three modes and one that is none of them
ModeTaskTypes == TaskTypes \cup {"remix"}
\* length in seconds of the source audio file, as wavfile.read gives it
SourceLengths == {Unreadable, MaxDuration + 60}
\* values the model collaborator reports to the progress callback (thousandths)
CallbackVals == {500, 1000}
\* result.get("error") of a result not marked successful: absent, or a message
ReportedErrors == {"None", "out of memory"}
\* A float sample: the finite value n / d, a NaN, or an infinity of sign n.
\* The samples of the model's output are tenths.
Fin(v) == [k |-> "fin", n |-> v, d |-> 10]
NaN == [k |-> "nan", n |-> 0, d |-> 1]
Inf(sign) == [k |-> "inf", n |-> sign, d |-> 1]
\* The samples of a buffer the model returns, in tenths: silence, quiet and
\* loud, beyond full scale, and the values that are no numbers
Samples == {Fin(0), Fin(3), Fin(-3), Fin(10), Fin(-10), Fin(50), Fin(-50), NaN, Inf(1), Inf(-1)}
QuantizeBuffers == [1..BufferLen -> Samples]
\* The one buffer of the specifications that do not look into the audio
OrdinaryBuffers == [1..BufferLen -> {Fin(-10)}]
\* A Python int v is written [hi, lo] with v = hi * 2^31 + lo and
\* 0 <= lo < 2^31 (lo is its low 31 bits in two's complement, hi the rest);
\* an Optional[int] is <<>> for None and <<v>> for the value v.
PyInt(hi, lo) == [hi |-> hi, lo |-> lo]
\* seed: absent, or 2^31 + 5
Seeds == {<<>>, <<PyInt(1, 5)>>}
\* seed: absent, -1, 5, 2^31 - 1, 2^31, 2^32 + 5, -2^31 + 9
ResolveSeeds ==
    {<<>>, <<PyInt(-1, SeedMask)>>, <<PyInt(0, 5)>>, <<PyInt(0, SeedMask)>>, <<PyInt(1, 0)>>,
     <<PyInt(2, 5)>>, <<PyInt(-1, 9)>>}
\* int.from_bytes(os.urandom(4), "big"): a value of 0 .. 2^32 - 1
Urandom == {PyInt(1, SeedMask)}
ResolveUrandom == {PyInt(0, 0), PyInt(0, 7), PyInt(1, SeedMask)}
\* batch_size of the requests whose parameters are resolved
ResolveBatchSizes == {-3, 0, 1, 2, MaxBatch, MaxBatch + 1, MaxBatch + 4}

\* A request as GenerationRequest(**data) parses it; wf = FALSE is a frame that
\* json.loads or GenerationRequest(**data) rejects.
RequestFields ==
    [wf : BOOLEAN, model : Models, duration : Durations, task_type : TaskTypes,
     source_audio_path : SourcePaths, repainting_end : RepaintEnds,
     batch_size : BatchSizes, seed : Seeds, quality_mode : QualityModes,
     ref_audio_strength : Strengths, repainting_start : RepaintStarts]

DefaultRequest ==
    [wf |-> TRUE, model |-> "acestep", duration |-> 0, task_type |-> "text2music",
     source_audio_path |-> "None", repainting_end |-> NoEnd, batch_size |-> 1,
     seed |-> <<>>, quality_mode |-> "fast", ref_audio_strength |-> DefaultStrength,
     repainting_start |-> NoStart]

\* The fields a request's handling reads, the others at their default: a
\* malformed frame has no fields, a text2music request is handled alike
\* whatever its source path and repaint window are, and the quality tier
\* only selects a number handed to the model, as do the reference strength
\* and the start of the repaint window.
Relevant(r) ==
    /\ r.quality_mode = "fast"
    /\ r.ref_audio_strength = DefaultStrength
    /\ r.repainting_start = NoStart
    /\ ~r.wf => r = [DefaultRequest EXCEPT !.wf = FALSE]
    /\ r.model \notin KnownModels =>
           r = [DefaultRequest EXCEPT !.wf = r.wf, !.model = r.model]
    /\ r.duration > MaxDuration =>
           r = [DefaultRequest EXCEPT !.duration = r.duration]
    /\ r.task_type = "text2music" =>
           r.source_audio_path = "None" /\ r.repainting_end = NoEnd
    /\ r.task_type = "cover" => r.repainting_end = NoEnd
    /\ r.batch_size # 1 => r.task_type = "text2music" /\ r.duration = MaxDuration
    /\ r.duration = 0 =>
           r.task_type = "cover" \/ r = [DefaultRequest EXCEPT !.seed = r.seed]
    /\ r.seed # <<>> => r = [DefaultRequest EXCEPT !.seed = r.seed]

WsFrames == {r \in RequestFields : Relevant(r)}
HttpBodies == {r \in RequestFields : Relevant(r) /\ r.wf}
\* The requests of the specification of the worker pool: one variation or two
PoolBodies ==
    {[DefaultRequest EXCEPT !.duration = MaxDuration, !.batch_size = b] : b \in BatchSizes}
\* The one frame of the specification of the backlog
WaiterFrames == {[DefaultRequest EXCEPT !.duration = MaxDuration]}
\* The one request of the specification of the unload
UnloadBodies == {[DefaultRequest EXCEPT !.duration = MaxDuration]}
\* Requests whose quality_mode, task_type or both are none of the enumerated
\* values; the one with the unknown task names a source audio
LenientFrames ==
    {[DefaultRequest EXCEPT !.duration = MaxDuration, !.quality_mode = "turbo"],
     [DefaultRequest EXCEPT !.duration = MaxDuration, !.task_type = "remix",
                            !.source_audio_path = "exists"],
     [DefaultRequest EXCEPT !.duration = MaxDuration, !.quality_mode = "turbo",
                            !.task_type = "remix"]}
\* The one request of the specification of the quantization
QuantizeBodies == {[DefaultRequest EXCEPT !.duration = MaxDuration]}
\* The requests of the specification of the parameter resolution
ResolveBodies ==
    {[DefaultRequest EXCEPT !.duration = MaxDuration, !.batch_size = b, !.seed = sd] :
        b \in ResolveBatchSizes, sd \in ResolveSeeds}
    \cup {[DefaultRequest EXCEPT !.duration = MaxDuration, !.quality_mode = q] :
              q \in QualityModes}
    \cup {[DefaultRequest EXCEPT !.duration = MaxDuration, !.task_type = m,
                                 !.source_audio_path = p, !.ref_audio_strength = g,
                                 !.repainting_start = b, !.repainting_end = e] :
              m \in ModeTaskTypes, p \in {"None", "exists"}, g \in Strengths,
              b \in RepaintStarts, e \in {NoEnd, 10}}

VARIABLES
    session,                \* per session: the coroutine's position and locals
    job,                    \* per session: its _generate_acestep_sync call
    progress_queue,         \* per session: progress_queue (queue.Queue)
    backlog,                \* _executor's work queue
    _handler,               \* module global
    _handler_initialized,   \* module global
    enabled                 \* handler instances whose initialize_service succeeded

vars == <<session, job, progress_queue, backlog, _handler, _handler_initialized,
          enabled>>

\* -------------------------------------------------------- pure functions

MODEL_REGISTRY == [m \in KnownModels |-> [max_duration |-> MaxDuration]]

\* The text of an error as the client reads it: the fixed part of the message
\* and the numbers formatted into it.
ErrorDetail(text, args) == [text |-> text, args |-> args]
NoError == ErrorDetail("", <<>>)

\* `not request.source_audio_path`
NoPath(path) == path = "None"
\* os.path.exists(request.source_audio_path)
PathExists(path) == path = "exists"

\* Mutant of HttpValidate: the duration is compared with >= instead of >.
HttpValidate_OffByOne(r) ==
    IF r.model \notin DOMAIN MODEL_REGISTRY
    THEN ErrorDetail("Unknown model", <<>>)
    ELSE IF r.duration >= MODEL_REGISTRY[r.model].max_duration
    THEN ErrorDetail("Max duration", <<MODEL_REGISTRY[r.model].max_duration, r.duration>>)
    ELSE NoError

\* generate_music: the checks made before generate_acestep_http is awaited
HttpValidate(r) ==
    IF r.model \notin DOMAIN MODEL_REGISTRY
    THEN ErrorDetail("Unknown model", <<>>)
    ELSE IF r.duration > MODEL_REGISTRY[r.model].max_duration
    THEN ErrorDetail("Max duration", <<MODEL_REGISTRY[r.model].max_duration, r.duration>>)
    ELSE NoError

\* Mutant of WsValidate: a task type that is none of the three is refused.
WsValidate_KnownTasksOnly(r) ==
    IF r.task_type \notin TaskTypes
    THEN ErrorDetail("Unknown task type", <<>>)
    ELSE NoError

\* Mutant of WsValidate: the checks of the cover parameters are left out.
WsValidate_NoCoverCheck(r) ==
    IF r.model \notin DOMAIN MODEL_REGISTRY
    THEN ErrorDetail("Unknown model", <<>>)
    ELSE IF r.duration > MODEL_REGISTRY[r.model].max_duration
    THEN ErrorDetail("Max duration", <<MODEL_REGISTRY[r.model].max_duration, r.duration>>)
    ELSE IF r.task_type = "repaint" /\ NoPath(r.source_audio_path)
    THEN ErrorDetail("Repaint/extend mode requires source_audio_path", <<>>)
    ELSE IF r.task_type = "repaint" /\ ~PathExists(r.source_audio_path)
    THEN ErrorDetail("Source audio not found", <<>>)
    ELSE IF r.task_type = "repaint" /\ r.repainting_end = NoEnd
    THEN ErrorDetail("Repaint/extend mode requires repainting_end", <<>>)
    ELSE NoError

\* ws_generate: the checks made before the job is submitted, in the code's order
WsValidate(r) ==
    IF r.model \notin DOMAIN MODEL_REGISTRY
    THEN ErrorDetail("Unknown model", <<>>)
    ELSE IF r.duration > MODEL_REGISTRY[r.model].max_duration
    THEN ErrorDetail("Max duration", <<MODEL_REGISTRY[r.model].max_duration, r.duration>>)
    ELSE IF r.task_type = "cover" /\ NoPath(r.source_audio_path)
    THEN ErrorDetail("Cover mode requires source_audio_path", <<>>)
    ELSE IF r.task_type = "cover" /\ ~PathExists(r.source_audio_path)
    THEN ErrorDetail("Source audio not found", <<>>)
    ELSE IF r.task_type = "repaint" /\ NoPath(r.source_audio_path)
    THEN ErrorDetail("Repaint/extend mode requires source_audio_path", <<>>)
    ELSE IF r.task_type = "repaint" /\ ~PathExists(r.source_audio_path)
    THEN ErrorDetail("Source audio not found", <<>>)
    ELSE IF r.task_type = "repaint" /\ r.repainting_end = NoEnd
    THEN ErrorDetail("Repaint/extend mode requires repainting_end", <<>>)
    ELSE NoError

\* _generate_acestep_sync: the source audio check of the worker
SourceMissing(r) ==
    /\ r.task_type \in {"cover", "repaint"}
    /\ ~NoPath(r.source_audio_path)
    /\ ~PathExists(r.source_audio_path)

\* _generate_acestep_sync: the duration passed to the model; len is the length
\* wavfile.read finds for the source audio
EffectiveDuration(r, len) ==
    LET duration == IF r.task_type = "repaint" /\ r.repainting_end # NoEnd
                    THEN r.repainting_end
                    ELSE r.duration
    IN  IF r.task_type = "cover" /\ duration = 0 /\ ~NoPath(r.source_audio_path)
        THEN IF len = Unreadable THEN FallbackDuration ELSE len
        ELSE duration

\* batch_size = max(1, min(request.batch_size, 8))
Min(a, b) == IF a < b THEN a ELSE b
Max(a, b) == IF a > b THEN a ELSE b
\* Mutant of ClampBatch: no lower bound.
ClampBatch_NoLowerBound(b) == Min(b, MaxBatch)

ClampBatch(b) == Max(MinBatch, Min(b, MaxBatch))

\* v & 0x7FFFFFFF: the low 31 bits
Mask31(v) == v.lo

\* Mutant of EffectiveSeed: the seed of the request is not used.
EffectiveSeed_IgnoresExplicit(seed, raw) == Mask31(raw)

\* effective_seed: of the request's seed if there is one, else of the 4 random
\* bytes raw
EffectiveSeed(seed, raw) ==
    IF seed # <<>> THEN Mask31(seed[1]) ELSE Mask31(raw)

\* len(audios) for a result marked successful with audio, batch_size asked:
\* the model's to choose, main.py does not compare it with batch_size
AudioCounts(batch_size) == {1, batch_size}

\* task_label
TaskLabel(r) ==
    IF r.task_type = "cover" THEN "Creating cover"
    ELSE IF r.task_type = "repaint" THEN "Extending track"
    ELSE "Generating audio"

\* Mutant of GenerationFailed: the model's message is dropped.
GenerationFailed_NoMessage(error) == "RuntimeError: Generation failed"

\* error_msg = result.get("error", "Unknown generation error");
\* RuntimeError(f"Generation failed: {error_msg}")
GenerationFailed(error) ==
    "RuntimeError: Generation failed: "
        \o (IF error = "None" THEN "Unknown generation error" ELSE error)

\* _progress_bridge: mapped = 0.15 + val * 0.70
Mapped(val) == 150 + (val * 700) \div 1000

\* ---------------------------------------------------------------- frames

ProgressEvent(progress, message) == [progress |-> progress, message |-> message]

ProgressFrame(ev) ==
    [type |-> "progress", progress |-> ev.progress, message |-> ev.message]
Heartbeat == [type |-> "heartbeat"]
ErrorFrame(detail) == [type |-> "error", detail |-> detail]
\* complete_msg: audio_path, duration and seed are the first result's,
\* audio_paths and durations list all of them
CompleteFrame(results) ==
    [type |-> "complete",
     audio_path |-> results[1].audio_path,
     duration |-> results[1].duration,
     audio_paths |-> [i \in 1..Len(results) |-> results[i].audio_path],
     durations |-> [i \in 1..Len(results) |-> results[i].duration],
     seed |-> results[1].seed]

\* Mutant of QueuePut: the event is put at the head.
QueuePut_AtHead(q, ev) == <<ev>> \o q

\* queue.Queue: put at the tail, get_nowait from the head
QueuePut(q, ev) == Append(q, ev)
QueueGet(q) == Head(q)
QueueRest(q) == Tail(q)

\* ----------------------------------------------------------------- state

NoResponse == [status |-> 0, detail |-> NoError, body |-> <<>>]

InitSession ==
    [kind |-> "none", pc |-> "idle", request |-> DefaultRequest, connected |-> TRUE,
     cancel_event |-> FALSE, submitted |-> FALSE, cancel_called |-> FALSE,
     sent |-> <<>>, response |-> NoResponse, disc_at |-> "no",
     drained_late |-> FALSE, after_raised |-> FALSE, error_swallowed |-> FALSE,
     tick |-> 0, env |-> "none", attempts |-> <<>>]

NoArgs ==
    [called |-> FALSE, audio_duration |-> 0, batch_size |-> 0, seed |-> 0,
     use_random_seed |-> FALSE, inference_steps |-> 0, task_type |-> "", src_audio |-> "None",
     audio_cover_strength |-> 0, instruction |-> "", reference_audio |-> "None",
     repainting_start |-> <<>>, repainting_end |-> <<>>]

InitJob ==
    [pc |-> "none", ticket |-> 0, handler |-> "None", duration |-> 0, seed |-> 0,
     cb |-> 0,
     result |-> "none", error |-> "None", n |-> 0, responses |-> <<>>, exc |-> "none",
     cleared_before |-> FALSE, cleared_after |-> FALSE, published |-> <<>>,
     loaded |-> FALSE, gen_kwargs |-> NoArgs, started_cancelled |-> FALSE,
     cb_raised |-> FALSE, files |-> <<>>]

Init ==
    /\ session = [s \in Sessions |-> InitSession]
    /\ job = [s \in Sessions |-> InitJob]
    /\ progress_queue = [s \in Sessions |-> <<>>]
    /\ backlog = <<>>
    /\ _handler = "None"
    /\ _handler_initialized = FALSE
    /\ enabled = {}

\* The worker's call has ended: the future holds a result or an exception.
Finished(s) == job[s].pc \in {"returned", "raised"}
\* gen_future.done(): also true of a future the session cancelled
FutureDone(s) == Finished(s) \/ session[s].cancel_called
\* The job occupies a pool worker.
Running(s) == job[s].pc \notin {"none", "queued", "skipped", "returned", "raised"}
\* The pool workers that jobs j occupy
Busy(j) ==
    Cardinality({t \in Sessions :
        j[t].pc \notin {"none", "queued", "skipped", "returned", "raised"}})

\* ------------------------------------------------- the WebSocket session

\* The work items submitted to _executor so far
Submitted == {t \in Sessions : job[t].pc # "none"}

\* Mutant of Submit: the work item is put at the head of the backlog.
Submit_AtHead(s) ==
    /\ job' = [job EXCEPT ![s].pc = "queued", ![s].ticket = Cardinality(Submitted)]
    /\ backlog' = <<s>> \o backlog

\* loop.run_in_executor(_executor, _generate_acestep_sync, ...): the work item
\* joins the executor's queue; ticket is its rank among the submissions
Submit(s) ==
    /\ job' = [job EXCEPT ![s].pc = "queued", ![s].ticket = Cardinality(Submitted)]
    /\ backlog' = Append(backlog, s)

\* Mutant of OnDisconnect: the token is not set.
OnDisconnect_NoToken(s) ==
    [session[s] EXCEPT !.cancel_called = session[s].submitted /\ ~FutureDone(s),
                       !.pc = "closed"]

\* Mutant of OnDisconnect: the token is set only if the future was cancelled.
OnDisconnect_TokenIfQueued(s) ==
    [session[s] EXCEPT !.cancel_event = job[s].pc = "queued",
                       !.cancel_called = session[s].submitted /\ ~FutureDone(s),
                       !.pc = "closed"]

\* except WebSocketDisconnect: the token is set, and the future cancelled if
\* it is there and not done
OnDisconnect(s) ==
    [session[s] EXCEPT !.cancel_event = TRUE,
                       !.cancel_called = session[s].submitted /\ ~FutureDone(s),
                       !.pc = "closed"]

\* Mutant of OnException: no error frame is sent.
OnException_Silent(s, detail) ==
    [session[s] EXCEPT !.cancel_event = TRUE, !.pc = "closed"]

\* Mutant of OnException: the exception of a send that fails leaves the
\* handler.
OnException_Propagates(s, detail) ==
    [session[s] EXCEPT !.cancel_event = TRUE,
                       !.sent = IF session[s].connected
                                THEN Append(@, ErrorFrame(detail))
                                ELSE @,
                       !.pc = IF session[s].connected THEN "closed" ELSE "crashed"]

\* except Exception: the token is set and the error sent as the last frame; a
\* send that fails is swallowed (except Exception: pass) and the handler
\* returns
OnException(s, detail) ==
    [session[s] EXCEPT !.cancel_event = TRUE,
                       !.sent = IF session[s].connected
                                THEN Append(@, ErrorFrame(detail))
                                ELSE @,
                       !.error_swallowed = ~session[s].connected,
                       !.pc = "closed"]

\* Mutant of SendThen: a successful send sets the token.
SendThen_SetsToken(s, frame, to) ==
    IF session[s].connected
    THEN [session[s] EXCEPT !.sent = Append(@, frame), !.pc = to,
                            !.cancel_event = TRUE]
    ELSE OnDisconnect(s)

\* await websocket.send_json(frame) followed by the coroutine going to pc `to`:
\* the frame reaches a connected client; on a closed transport the send raises
\* WebSocketDisconnect, which the handler's except clause takes.
SendThen(s, frame, to) ==
    IF session[s].connected
    THEN [session[s] EXCEPT !.sent = Append(@, frame), !.pc = to]
    ELSE OnDisconnect(s)

\* The client closes the connection; the session notices at its next receive
\* or send.
ClientDisconnect(s) ==
    /\ session[s].kind = "ws"
    /\ session[s].pc # "closed"
    /\ session[s].connected
    /\ session' = [session EXCEPT
           ![s].connected = FALSE,
           ![s].disc_at = IF ~session[s].submitted THEN "before"
                          ELSE IF Finished(s) THEN "finished"
                          ELSE "pending"]
    /\ UNCHANGED <<job, progress_queue, backlog, _handler, _handler_initialized,
                   enabled>>

\* A client connects to /ws/generate: websocket.accept(), a fresh
\* cancel_event, gen_future = None
WsAccept(s) ==
    /\ session[s].kind = "none"
    /\ session' = [session EXCEPT ![s].kind = "ws", ![s].pc = "accept"]
    /\ UNCHANGED <<job, progress_queue, backlog, _handler, _handler_initialized,
                   enabled>>

\* raw = await websocket.receive_text()
WsReceive(s, frames) ==
    /\ session[s].kind = "ws"
    /\ session[s].pc = "accept"
    /\ IF session[s].connected
       THEN \E raw \in frames :
                session' = [session EXCEPT ![s].request = raw, ![s].pc = "parse"]
       ELSE session' = [session EXCEPT ![s] = OnDisconnect(s)]
    /\ UNCHANGED <<job, progress_queue, backlog, _handler, _handler_initialized,
                   enabled>>

\* json.loads, GenerationRequest(**data), the validation, and either the error
\* frame or the submission of the job
WsHandleRequest(s) ==
    /\ session[s].kind = "ws"
    /\ session[s].pc = "parse"
    /\ LET r == session[s].request
       IN  IF ~r.wf
           THEN /\ session' = [session EXCEPT
                       ![s] = OnException(s, ErrorDetail("malformed request", <<>>))]
                /\ UNCHANGED <<job, backlog>>
           ELSE IF WsValidate(r) # NoError
           THEN /\ session' = [session EXCEPT
                       ![s] = SendThen(s, ErrorFrame(WsValidate(r)), "closed")]
                /\ UNCHANGED <<job, backlog>>
           ELSE /\ session' = [session EXCEPT
                       ![s].submitted = TRUE, ![s].pc = "drain",
                       ![s].after_raised = \E t \in Sessions : job[t].pc = "raised"]
                /\ Submit(s)
    /\ UNCHANGED <<progress_queue, _handler, _handler_initialized, enabled>>

\* The inner loop of step 4: one get_nowait and the send of what it returned
WsForward(s) ==
    /\ session[s].kind = "ws"
    /\ session[s].pc = "drain"
    /\ progress_queue[s] # <<>>
    /\ progress_queue' = [progress_queue EXCEPT ![s] = QueueRest(@)]
    /\ session' = [session EXCEPT
           ![s] = SendThen(s, ProgressFrame(QueueGet(progress_queue[s])), "drain")]
    /\ UNCHANGED <<job, backlog, _handler, _handler_initialized, enabled>>

\* Mutant of WsQueueEmpty: the inner loop of step 4 ends with events left in
\* the queue.
WsQueueEmpty_Early(s) ==
    /\ session[s].kind = "ws"
    /\ session[s].pc = "drain"
    /\ session' = [session EXCEPT ![s].pc = "check"]
    /\ UNCHANGED <<job, progress_queue, backlog, _handler, _handler_initialized,
                   enabled>>

\* get_nowait raises queue.Empty: the inner loop of step 4 ends
WsQueueEmpty(s) ==
    /\ session[s].kind = "ws"
    /\ session[s].pc = "drain"
    /\ progress_queue[s] = <<>>
    /\ session' = [session EXCEPT ![s].pc = "check"]
    /\ UNCHANGED <<job, progress_queue, backlog, _handler, _handler_initialized,
                   enabled>>

\* The heartbeat frames a session has sent
Heartbeats(s) ==
    Cardinality({i \in 1..Len(session[s].sent) : session[s].sent[i].type = "heartbeat"})

\* if gen_future.done(): break; else the heartbeat, then asyncio.sleep(2)
WsCheckDone(s) ==
    /\ session[s].kind = "ws"
    /\ session[s].pc = "check"
    /\ FutureDone(s) \/ Heartbeats(s) < MaxHeartbeats
    /\ session' = [session EXCEPT
           ![s] = IF FutureDone(s)
                  THEN [session[s] EXCEPT !.pc = "final"]
                  ELSE SendThen(s, Heartbeat, "sleep")]
    /\ UNCHANGED <<job, progress_queue, backlog, _handler, _handler_initialized,
                   enabled>>

\* asyncio.sleep(2) returns
WsWake(s) ==
    /\ session[s].kind = "ws"
    /\ session[s].pc = "sleep"
    /\ session' = [session EXCEPT ![s].pc = "drain"]
    /\ UNCHANGED <<job, progress_queue, backlog, _handler, _handler_initialized,
                   enabled>>

\* Mutant of FinalDrainPending: step 5 is left out.
FinalDrainPending_Skipped(q) == FALSE

\* Step 5 has something left to forward.
FinalDrainPending(q) == q # <<>>

\* Step 5: one get_nowait and the send of what it returned
WsFinalForward(s) ==
    /\ session[s].kind = "ws"
    /\ session[s].pc = "final"
    /\ FinalDrainPending(progress_queue[s])
    /\ progress_queue' = [progress_queue EXCEPT ![s] = QueueRest(@)]
    /\ session' = [session EXCEPT
           ![s] = [SendThen(s, ProgressFrame(QueueGet(progress_queue[s])), "final")
                      EXCEPT !.drained_late = TRUE]]
    /\ UNCHANGED <<job, backlog, _handler, _handler_initialized, enabled>>

\* Step 6: gen_future.result(), then the complete frame or the except clause
\* of the exception the job raised
WsResult(s) ==
    /\ session[s].kind = "ws"
    /\ session[s].pc = "final"
    /\ ~FinalDrainPending(progress_queue[s])
    /\ session' = [session EXCEPT
           ![s] = IF job[s].pc = "returned"
                  THEN SendThen(s, CompleteFrame(job[s].responses), "closed")
                  ELSE IF job[s].exc = "GenerationCancelledError"
                  THEN [session[s] EXCEPT !.pc = "closed"]
                  ELSE OnException(s, ErrorDetail(job[s].exc, <<>>))]
    /\ UNCHANGED <<job, progress_queue, backlog, _handler, _handler_initialized,
                   enabled>>

\* The cancellation of the asyncio future reaches the pool's future: a job
\* still waiting in the backlog never runs.
CancelPropagate(s) ==
    /\ session[s].cancel_called
    /\ job[s].pc = "queued"
    /\ job' = [job EXCEPT ![s].pc = "skipped"]
    /\ backlog' = SelectSeq(backlog, LAMBDA t : t # s)
    /\ UNCHANGED <<session, progress_queue, _handler, _handler_initialized, enabled>>

\* ----------------------------------------------------- the HTTP session

\* generate_music: the request is validated and generate_acestep_http awaits
\* the job it submits
HttpReceive(s, bodies) ==
    /\ session[s].kind = "none"
    /\ \E r \in bodies :
           IF HttpValidate(r) # NoError
           THEN /\ session' = [session EXCEPT
                       ![s].kind = "http",
                       ![s].request = r,
                       ![s].response = [status |-> 400, detail |-> HttpValidate(r),
                                        body |-> <<>>],
                       ![s].pc = "closed"]
                /\ UNCHANGED <<job, backlog>>
           ELSE /\ session' = [session EXCEPT ![s].kind = "http",
                                              ![s].request = r,
                                              ![s].submitted = TRUE,
                                              ![s].after_raised =
                                                  \E t \in Sessions : job[t].pc = "raised",
                                              ![s].pc = "await"]
                /\ Submit(s)
    /\ UNCHANGED <<progress_queue, _handler, _handler_initialized, enabled>>

\* generate_acestep_http: responses[0], or the status of the exception raised
HttpResult(s) ==
    /\ session[s].kind = "http"
    /\ session[s].pc = "await"
    /\ Finished(s)
    /\ session' = [session EXCEPT
           ![s].pc = "closed",
           ![s].response =
               IF job[s].pc = "returned"
               THEN [status |-> 200, detail |-> NoError,
                     body |-> <<job[s].responses[1]>>]
               ELSE IF job[s].exc = "ImportError"
               THEN [status |-> 501,
                     detail |-> ErrorDetail("Music engine components not installed", <<>>),
                     body |-> <<>>]
               ELSE [status |-> 500, detail |-> ErrorDetail(job[s].exc, <<>>),
                     body |-> <<>>]]
    /\ UNCHANGED <<job, progress_queue, backlog, _handler, _handler_initialized,
                   enabled>>

\* ---------------------------------------------------- the model download

\* Mutant of TickProgress: the progress of the ticks has no cap.
TickProgress_NoCap(tick) == ProgressStart + tick * ProgressPerTick

\* progress = min(0.15 + tick * 0.005, 0.75), written with three decimals
TickProgress(tick) == Min(ProgressStart + tick * ProgressPerTick, ProgressCap)

\* A line of the stream
Line(status, progress, error) == [status |-> status, progress |-> progress, error |-> error]

\* POST /models/download: an unknown model is refused, for a known one the
\* StreamingResponse starts stream_progress
DownloadReceive(s, names) ==
    /\ session[s].kind = "none"
    /\ \E model_name \in names :
           session' = [session EXCEPT
               ![s] = IF model_name \notin DOMAIN MODEL_REGISTRY
                      THEN [@ EXCEPT !.kind = "download",
                                     !.request = [DefaultRequest EXCEPT !.model = model_name],
                                     !.response = [status |-> 400,
                                                   detail |-> ErrorDetail("Unknown model", <<>>),
                                                   body |-> <<>>],
                                     !.pc = "closed"]
                      ELSE [@ EXCEPT !.kind = "download",
                                     !.request = [DefaultRequest EXCEPT !.model = model_name],
                                     !.response = [status |-> 200, detail |-> NoError,
                                                   body |-> <<>>],
                                     !.pc = "dl_first"]]
    /\ UNCHANGED <<job, progress_queue, backlog, _handler, _handler_initialized, enabled>>

\* stream_progress: the first line, progress 0.1
DownloadFirst(s) ==
    /\ session[s].kind = "download"
    /\ session[s].pc = "dl_first"
    /\ session' = [session EXCEPT ![s].sent = Append(@, Line("downloading", 100, "")),
                                  ![s].pc = "dl_init"]
    /\ UNCHANGED <<job, progress_queue, backlog, _handler, _handler_initialized, enabled>>

\* stream_progress: the line of progress 0.15
DownloadInit(s) ==
    /\ session[s].kind = "download"
    /\ session[s].pc = "dl_init"
    /\ session' = [session EXCEPT
           ![s].sent = Append(@, Line("downloading", ProgressStart, "")),
           ![s].pc = "dl_submit"]
    /\ UNCHANGED <<job, progress_queue, backlog, _handler, _handler_initialized, enabled>>

\* stream_progress: loop.run_in_executor(_executor, _load_handler); tick = 0
DownloadSubmit(s) ==
    /\ session[s].kind = "download"
    /\ session[s].pc = "dl_submit"
    /\ session' = [session EXCEPT ![s].submitted = TRUE, ![s].pc = "dl_wait"]
    /\ Submit(s)
    /\ UNCHANGED <<progress_queue, _handler, _handler_initialized, enabled>>

\* stream_progress: while not load_future.done(): await asyncio.sleep(5)
DownloadSleep(s) ==
    /\ session[s].kind = "download"
    /\ session[s].pc = "dl_wait"
    /\ ~Finished(s)
    /\ session[s].tick < MaxTicks
    /\ session' = [session EXCEPT ![s].pc = "dl_tick"]
    /\ UNCHANGED <<job, progress_queue, backlog, _handler, _handler_initialized, enabled>>

\* stream_progress: tick += 1 and the keep-alive line, whether or not the load
\* ended during the sleep
DownloadTick(s) ==
    /\ session[s].kind = "download"
    /\ session[s].pc = "dl_tick"
    /\ session' = [session EXCEPT
           ![s].tick = @ + 1,
           ![s].sent = Append(@, Line("downloading", TickProgress(session[s].tick + 1), "")),
           ![s].pc = "dl_wait"]
    /\ UNCHANGED <<job, progress_queue, backlog, _handler, _handler_initialized, enabled>>

\* stream_progress: load_future.result(); an ImportError gives the error line
\* and return, any other exception the error line of the outer except clause,
\* otherwise the line of progress 0.85
DownloadResult(s) ==
    /\ session[s].kind = "download"
    /\ session[s].pc = "dl_wait"
    /\ Finished(s)
    /\ session' = [session EXCEPT
           ![s] = IF job[s].pc = "raised"
                  THEN [@ EXCEPT !.sent = Append(@, Line("error", 0, job[s].exc)),
                                 !.pc = "closed"]
                  ELSE [@ EXCEPT !.sent = Append(@, Line("downloading", 850, "")),
                                 !.pc = "dl_done"]]
    /\ UNCHANGED <<job, progress_queue, backlog, _handler, _handler_initialized, enabled>>

\* stream_progress: the line complete, progress 1.0
DownloadComplete(s) ==
    /\ session[s].kind = "download"
    /\ session[s].pc = "dl_done"
    /\ session' = [session EXCEPT ![s].sent = Append(@, Line("complete", 1000, "")),
                                  ![s].pc = "closed"]
    /\ UNCHANGED <<job, progress_queue, backlog, _handler, _handler_initialized, enabled>>

\* ------------------------------------------- the script generate_music.py

\* What a call of generate_with_mlx finds: mlx cannot be imported, the model
\* directory has no state_dict.bin, or it has one
MlxEnvs == {"no mlx", "no state_dict.bin", "mlx format"}

\* generate_with_transformers either returns its result or raises
TransformersOutcomes == {"returned", "raised"}

\* generate_with_mlx is called
GenerateWithMlx(s) ==
    /\ session[s].kind = "none"
    /\ \E e \in MlxEnvs :
           session' = [session EXCEPT ![s].kind = "script", ![s].env = e, ![s].pc = "mlx_try"]
    /\ UNCHANGED <<job, progress_queue, backlog, _handler, _handler_initialized, enabled>>

\* The try block up to the test of state_dict.bin: a failing import and the
\* NotImplementedError of the MLX format go to the except clause
MlxTry(s) ==
    /\ session[s].kind = "script"
    /\ session[s].pc = "mlx_try"
    /\ session' = [session EXCEPT
           ![s].pc = IF session[s].env = "no state_dict.bin" THEN "mlx_inner"
                     ELSE "mlx_except"]
    /\ UNCHANGED <<job, progress_queue, backlog, _handler, _handler_initialized, enabled>>

\* return generate_with_transformers(...) inside the try block: what it raises
\* is caught by `except Exception` of the same try
MlxInner(s) ==
    /\ session[s].kind = "script"
    /\ session[s].pc = "mlx_inner"
    /\ \E outcome \in TransformersOutcomes :
           session' = [session EXCEPT
               ![s].attempts = Append(@, outcome),
               ![s].pc = IF outcome = "returned" THEN "sc_returned" ELSE "mlx_except"]
    /\ UNCHANGED <<job, progress_queue, backlog, _handler, _handler_initialized, enabled>>

\* except Exception: return generate_with_transformers(...); what it raises
\* here leaves generate_with_mlx
MlxExcept(s) ==
    /\ session[s].kind = "script"
    /\ session[s].pc = "mlx_except"
    /\ \E outcome \in TransformersOutcomes :
           session' = [session EXCEPT
               ![s].attempts = Append(@, outcome),
               ![s].pc = IF outcome = "returned" THEN "sc_returned" ELSE "sc_raised"]
    /\ UNCHANGED <<job, progress_queue, backlog, _handler, _handler_initialized, enabled>>

\* ------------------------------------------------------ the model unload

\* Mutant of Unloaded: _handler is cleared, _handler_initialized is not.
Unloaded_KeepsFlag(model_name, handler, initialized) ==
    IF model_name = "acestep" /\ initialized
    THEN [handler |-> "None", initialized |-> TRUE, status |-> "deleted"]
    ELSE [handler |-> handler, initialized |-> initialized, status |-> "not_loaded"]

\* delete_model: the module globals after the call and the status reported
Unloaded(model_name, handler, initialized) ==
    IF model_name = "acestep" /\ initialized
    THEN [handler |-> "None", initialized |-> FALSE, status |-> "deleted"]
    ELSE [handler |-> handler, initialized |-> initialized, status |-> "not_loaded"]

\* DELETE /models/{model_name}: one call of delete_model, on the event loop
DeleteModel(s, names) ==
    /\ session[s].kind = "none"
    /\ \E model_name \in names :
           LET u == Unloaded(model_name, _handler, _handler_initialized)
           IN  /\ _handler' = u.handler
               /\ _handler_initialized' = u.initialized
               /\ session' = [session EXCEPT
                      ![s].kind = "delete",
                      ![s].request = [DefaultRequest EXCEPT !.model = model_name],
                      ![s].response =
                          [status |-> 200, detail |-> NoError,
                           body |-> <<[status |-> u.status, model |-> model_name]>>],
                      ![s].pc = "closed"]
    /\ UNCHANGED <<job, progress_queue, backlog, enabled>>

\* ------------------------------------------------------------ the worker

\* Mutant of Cancelled: the checkpoint inside the progress callback and the
\* one before inference are left out.
Cancelled_OnlyAtStart(s) ==
    session[s].kind = "ws" /\ session[s].cancel_event /\ job[s].pc = "chk1"

\* Mutant of Cancelled: no checkpoint right after the model call.
Cancelled_NotAfterCall(s) ==
    session[s].kind = "ws" /\ session[s].cancel_event /\ job[s].pc # "after"

\* _throw_if_cancelled raises: the HTTP path passes no cancel_event
Cancelled(s) == session[s].kind = "ws" /\ session[s].cancel_event

\* progress_cb: the WebSocket session's puts on its queue, the HTTP wrapper's
\* (lambda p, m: None) does nothing
Put(s, q, ev) == IF session[s].kind = "ws" THEN QueuePut(q, ev) ELSE q

\* Mutant of Raise: an exception in the loop over audios returns the variations
\* processed so far.
Raise_ReturnsPartial(s, exc, in_try) ==
    IF job[s].pc = "loop" /\ job[s].responses # <<>>
    THEN [job[s] EXCEPT !.pc = "returned", !.cleared_after = TRUE]
    ELSE [job[s] EXCEPT !.pc = "raised", !.exc = exc, !.cleared_after = in_try]

\* The call ends with exception exc; inside the try block the finally clause
\* clears the accelerator cache on the way out.
Raise(s, exc, in_try) ==
    [job[s] EXCEPT !.pc = "raised", !.exc = exc, !.cleared_after = in_try]

\* A free pool worker takes the oldest work item and enters
\* _generate_acestep_sync: _clear_mps_cache() before generation; the work item
\* of a download is _load_handler itself
WorkerStart(s) ==
    /\ backlog # <<>>
    /\ Head(backlog) = s
    /\ Cardinality({t \in Sessions : Running(t)}) < MaxWorkers
    /\ backlog' = Tail(backlog)
    /\ job' = [job EXCEPT ![s] =
           IF session[s].kind = "download"
           THEN [@ EXCEPT !.pc = "ld_check"]
           ELSE [@ EXCEPT !.pc = "chk1", !.cleared_before = TRUE,
                          !.started_cancelled = Cancelled(s)]]
    /\ UNCHANGED <<session, progress_queue, _handler, _handler_initialized, enabled>>

\* _throw_if_cancelled(); progress_cb(0.05, ...); the call of _load_handler
JobBegin(s) ==
    /\ job[s].pc = "chk1"
    /\ IF Cancelled(s)
       THEN /\ job' = [job EXCEPT ![s] = Raise(s, "GenerationCancelledError", FALSE)]
            /\ UNCHANGED progress_queue
       ELSE LET ev == ProgressEvent(50, "Loading music engine")
            IN  /\ job' = [job EXCEPT ![s].pc = "ld_check", ![s].loaded = TRUE,
                                      ![s].published = Put(s, @, ev)]
                /\ progress_queue' = [progress_queue EXCEPT ![s] = Put(s, @, ev)]
    /\ UNCHANGED <<session, backlog, _handler, _handler_initialized, enabled>>

\* _load_handler: if _handler_initialized
JobLoadCheck(s) ==
    /\ job[s].pc = "ld_check"
    /\ job' = [job EXCEPT ![s].pc = IF _handler_initialized THEN "ld_ret"
                                    ELSE "ld_ensure"]
    /\ UNCHANGED <<session, progress_queue, backlog, _handler, _handler_initialized,
                   enabled>>

\* _load_handler: the imports and the download of the weights
LoadOutcomes ==
    {"ok", "ImportError", "RuntimeError: Failed to download required files"}

JobLoadEnsure(s) ==
    /\ job[s].pc = "ld_ensure"
    /\ \E outcome \in LoadOutcomes :
           job' = [job EXCEPT ![s] = IF outcome = "ok"
                                     THEN [@ EXCEPT !.pc = "ld_new"]
                                     ELSE Raise(s, outcome, FALSE)]
    /\ UNCHANGED <<session, progress_queue, backlog, _handler, _handler_initialized,
                   enabled>>

\* _load_handler: _handler = AceStepHandler(); the instance is named after the
\* job that made it
JobLoadNew(s) ==
    /\ job[s].pc = "ld_new"
    /\ _handler' = s
    /\ job' = [job EXCEPT ![s].pc = "ld_init"]
    /\ UNCHANGED <<session, progress_queue, backlog, _handler_initialized, enabled>>

\* _load_handler: _handler.initialize_service(...) on the instance the global
\* names now; if not enabled: raise
JobLoadInit(s) ==
    /\ job[s].pc = "ld_init"
    /\ \E ok \in BOOLEAN :
           IF _handler = "None"
           THEN /\ job' = [job EXCEPT ![s] = Raise(s, "AttributeError", FALSE)]
                /\ UNCHANGED enabled
           ELSE IF ok
           THEN /\ job' = [job EXCEPT ![s].pc = "ld_set"]
                /\ enabled' = enabled \cup {_handler}
           ELSE /\ job' = [job EXCEPT ![s] =
                       Raise(s, "RuntimeError: Music engine failed to initialize", FALSE)]
                /\ UNCHANGED enabled
    /\ UNCHANGED <<session, progress_queue, backlog, _handler, _handler_initialized>>

\* _load_handler: _handler_initialized = True
JobLoadSet(s) ==
    /\ job[s].pc = "ld_set"
    /\ _handler_initialized' = TRUE
    /\ job' = [job EXCEPT ![s].pc = "ld_ret"]
    /\ UNCHANGED <<session, progress_queue, backlog, _handler, enabled>>

\* _load_handler: return _handler; handler = _load_handler()
JobLoadRet(s) ==
    /\ job[s].pc = "ld_ret"
    /\ job' = [job EXCEPT ![s].pc = IF session[s].kind = "download" THEN "returned"
                                    ELSE "prepare",
                          ![s].handler = _handler]
    /\ UNCHANGED <<session, progress_queue, backlog, _handler, _handler_initialized,
                   enabled>>

\* _throw_if_cancelled(); the source audio check; the effective duration and
\* the effective seed; progress_cb(0.10, ...).  All of it is before the try
\* block.  urandom is what os.urandom(4) can give.
JobPrepare(s, urandom) ==
    /\ job[s].pc = "prepare"
    /\ LET r == session[s].request
           ev == ProgressEvent(100, "Preparing generation parameters")
       IN  IF Cancelled(s)
           THEN /\ job' = [job EXCEPT ![s] = Raise(s, "GenerationCancelledError", FALSE)]
                /\ UNCHANGED progress_queue
           ELSE IF SourceMissing(r)
           THEN /\ job' = [job EXCEPT ![s] = Raise(s, "FileNotFoundError", FALSE)]
                /\ UNCHANGED progress_queue
           ELSE \E len \in SourceLengths, raw \in urandom :
                    /\ job' = [job EXCEPT ![s].pc = "enter",
                                          ![s].duration = EffectiveDuration(r, len),
                                          ![s].seed = EffectiveSeed(r.seed, raw),
                                          ![s].published = Put(s, @, ev)]
                    /\ progress_queue' = [progress_queue EXCEPT ![s] = Put(s, @, ev)]
    /\ UNCHANGED <<session, backlog, _handler, _handler_initialized, enabled>>

\* Mutant of InferSteps: the tier is ignored.
InferSteps_AlwaysFast(quality_mode) == FastSteps

\* Quality mode determines inference steps
InferSteps(quality_mode) ==
    IF quality_mode = "draft" THEN DraftSteps
    ELSE IF quality_mode = "quality" THEN QualitySteps
    ELSE FastSteps

cover_instruction == "Generate audio semantic tokens based on the given conditions:"
text2music_instruction == "Fill the audio semantic mask based on the given conditions:"
repaint_instruction == "Repaint the mask area based on the given conditions:"

\* Mutant of Instruction: the instruction of text2music for every task.
Instruction_OnlyText2Music(r) == text2music_instruction

\* The instruction string of the task
Instruction(r) ==
    IF r.task_type = "cover" THEN cover_instruction
    ELSE IF r.task_type = "repaint" THEN repaint_instruction
    ELSE text2music_instruction

\* gen_kwargs["repainting_start"], gen_kwargs["repainting_end"]: the key is
\* there for a repaint whose request gives the value (<<>>: no such key)
RepaintKey(r, value, none) ==
    IF r.task_type = "repaint" /\ value # none THEN <<value>> ELSE <<>>

\* gen_kwargs, as far as the properties read them
GenKwargs(r, duration, effective_seed) ==
    [called |-> TRUE, audio_duration |-> duration,
     batch_size |-> ClampBatch(r.batch_size), seed |-> effective_seed,
     use_random_seed |-> FALSE, inference_steps |-> InferSteps(r.quality_mode),
     task_type |-> r.task_type,
     src_audio |-> IF r.task_type \in {"cover", "repaint"}
                   THEN r.source_audio_path ELSE "None",
     audio_cover_strength |-> IF r.task_type = "cover"
                              THEN r.ref_audio_strength ELSE FullStrength,
     instruction |-> Instruction(r),
     reference_audio |-> IF r.task_type = "cover" THEN r.source_audio_path ELSE "None",
     repainting_start |-> RepaintKey(r, r.repainting_start, NoStart),
     repainting_end |-> RepaintKey(r, r.repainting_end, NoEnd)]

\* _throw_if_cancelled() (still before the try block); progress_cb(0.15, ...);
\* gen_kwargs; handler.generate_music(**gen_kwargs) is entered
JobEnterTry(s) ==
    /\ job[s].pc = "enter"
    /\ LET r == session[s].request
           ev == ProgressEvent(150, TaskLabel(r))
       IN  IF Cancelled(s)
           THEN /\ job' = [job EXCEPT ![s] = Raise(s, "GenerationCancelledError", FALSE)]
                /\ UNCHANGED progress_queue
           ELSE /\ progress_queue' = [progress_queue EXCEPT ![s] = Put(s, @, ev)]
                /\ job' = [job EXCEPT ![s] =
                       IF job[s].handler = "None"
                       THEN [Raise(s, "AttributeError", TRUE) EXCEPT
                                !.published = Put(s, @, ev)]
                       ELSE [@ EXCEPT !.pc = "gen",
                                      !.published = Put(s, @, ev),
                                      !.gen_kwargs =
                                          GenKwargs(r, job[s].duration, job[s].seed)]]
    /\ UNCHANGED <<session, backlog, _handler, _handler_initialized, enabled>>

\* The model invokes _progress_bridge(val, desc): the checkpoint, then the
\* remapped progress is published.  What the model does with the exception the
\* callback raises is the model's: it propagates out of generate_music, or the
\* model swallows it and goes on.
JobCallback(s) ==
    /\ job[s].pc = "gen"
    /\ job[s].cb < MaxCallbacks
    /\ job[s].handler \in enabled
    /\ \E val \in CallbackVals, swallowed \in BOOLEAN :
           LET ev == ProgressEvent(Mapped(val), TaskLabel(session[s].request))
           IN  IF Cancelled(s)
               THEN /\ job' = [job EXCEPT ![s] =
                           IF swallowed
                           THEN [@ EXCEPT !.cb = @ + 1, !.cb_raised = TRUE]
                           ELSE [Raise(s, "GenerationCancelledError", TRUE) EXCEPT
                                    !.cb = @ + 1, !.cb_raised = TRUE]]
                    /\ UNCHANGED progress_queue
               ELSE /\ job' = [job EXCEPT ![s].cb = @ + 1,
                                          ![s].published = Put(s, @, ev)]
                    /\ progress_queue' = [progress_queue EXCEPT ![s] = Put(s, @, ev)]
    /\ UNCHANGED <<session, backlog, _handler, _handler_initialized, enabled>>

\* What generate_music can end with: a result marked successful with audio, a
\* result not marked successful, a successful result with no
\* audio, or an exception.  A handler that never initialized cannot generate.
ModelOutcomes(h) ==
    IF h \in enabled THEN {"ok", "fail", "empty", "raise"} ELSE {"fail", "raise"}

\* result = handler.generate_music(**gen_kwargs) returns or raises
JobGenReturn(s) ==
    /\ job[s].pc = "gen"
    /\ \E outcome \in ModelOutcomes(job[s].handler), error \in ReportedErrors,
          audios \in AudioCounts(job[s].gen_kwargs.batch_size) :
           job' = [job EXCEPT ![s] =
               IF outcome = "raise"
               THEN Raise(s, "model exception", TRUE)
               ELSE [@ EXCEPT !.pc = "after", !.result = outcome,
                              !.error = IF outcome = "fail" THEN error ELSE "None",
                              !.n = IF outcome = "ok" THEN audios ELSE 0]]
    /\ UNCHANGED <<session, progress_queue, backlog, _handler, _handler_initialized,
                   enabled>>

\* _throw_if_cancelled(); the success check; progress_cb(0.85, ...); the check
\* that audios is not empty
JobAfterGen(s) ==
    /\ job[s].pc = "after"
    /\ LET ev == ProgressEvent(850, "Processing audio")
       IN  IF Cancelled(s)
           THEN /\ job' = [job EXCEPT ![s] = Raise(s, "GenerationCancelledError", TRUE)]
                /\ UNCHANGED progress_queue
           ELSE IF job[s].result = "fail"
           THEN /\ job' = [job EXCEPT ![s] =
                       Raise(s, GenerationFailed(job[s].error), TRUE)]
                /\ UNCHANGED progress_queue
           ELSE /\ progress_queue' = [progress_queue EXCEPT ![s] = Put(s, @, ev)]
                /\ job' = [job EXCEPT ![s] =
                       IF job[s].n = 0
                       THEN [Raise(s, "RuntimeError: Generation produced no audio", TRUE)
                                EXCEPT !.published = Put(s, @, ev)]
                       ELSE [@ EXCEPT !.pc = "loop", !.published = Put(s, @, ev)]]
    /\ UNCHANGED <<session, backlog, _handler, _handler_initialized, enabled>>

\* Mutant of Uuid4: one identifier for each job, used for all its files.
Uuid4_PerJob(s, i) == <<s, 0>>

\* uuid.uuid4(), called in pass i of the loop of job s: a random identifier
\* of 122 bits, taken to be one that no other call returns; it is written as
\* the call that made it.
Uuid4(s, i) == <<s, i>>

\* ------------------------------------------------ normalisation, quantization

\* np.abs of a sample
AbsVal(x) == [x EXCEPT !.n = IF @ < 0 THEN -@ ELSE @]

\* np.max(np.abs(audio_float)): a NaN in the buffer makes the maximum NaN; the
\* finite samples of one buffer have one denominator
Peak(buf) ==
    IF \E i \in DOMAIN buf : buf[i].k = "nan" THEN NaN
    ELSE IF \E i \in DOMAIN buf : buf[i].k = "inf" THEN Inf(1)
    ELSE AbsVal(buf[CHOOSE i \in DOMAIN buf :
                        \A j \in DOMAIN buf : AbsVal(buf[i]).n >= AbsVal(buf[j]).n])

\* max_val > 0: false of a NaN
Positive(max_val) ==
    \/ max_val.k = "inf"
    \/ max_val.k = "fin" /\ max_val.n > 0

\* x / max_val * 0.95 for a max_val that is positive: a finite sample over an
\* infinite maximum is 0, an infinite one over it is NaN
Scale(x, max_val) ==
    IF max_val.k = "fin"
    THEN [k |-> "fin", n |-> x.n * Headroom, d |-> max_val.n * 100]
    ELSE IF x.k = "fin" THEN Fin(0) ELSE NaN

\* if max_val > 0: audio_float = audio_float / max_val * 0.95
Normalize(buf) ==
    LET max_val == Peak(buf)
    IN  IF Positive(max_val)
        THEN [i \in DOMAIN buf |-> Scale(buf[i], max_val)]
        ELSE buf

\* n / d rounded toward zero
Trunc(n, d) == IF n >= 0 THEN n \div d ELSE -((-n) \div d)

\* The integer part of x * 32767, for a finite x
Scaled(x) == Trunc(x.n * FullScale, x.d)

\* The value is not one of np.int16: not a number, or outside -32768 .. 32767
Overflows(x) == x.k # "fin" \/ Scaled(x) < Int16Min \/ Scaled(x) > Int16Max

\* What astype(np.int16) gives for a value that is not one of np.int16 is not
\* defined by C; a build either keeps the low 16 bits of the 32-bit
\* conversion or saturates.
Casts == {"wraps", "saturates"}

\* (x * 32767).astype(np.int16) on a build with the given cast
Quantize(x, cast) ==
    IF ~Overflows(x) THEN Scaled(x)
    ELSE IF cast = "wraps"
    THEN IF x.k = "fin" THEN ((Scaled(x) - Int16Min) % 65536) + Int16Min ELSE 0
    ELSE IF x.k = "nan" THEN 0
    ELSE IF x.n > 0 THEN Int16Max ELSE Int16Min

\* The file written for a buffer: its path, and for the properties the buffer
\* read, the buffer after the normalisation and the samples written
WavFile(final_path, buf, cast) ==
    [path |-> final_path, input |-> buf, scaled |-> Normalize(buf),
     pcm |-> [i \in DOMAIN buf |-> Quantize(Normalize(buf)[i], cast)]]

\* What a pass of the loop can end with: the response is appended, or an
\* exception is raised before wavfile.write or after it
Fates == {"appended", "raised before write", "raised after write"}

\* One pass of the loop over audios: _throw_if_cancelled(), the normalisation
\* and the write of the WAV file at a fresh path, the response appended; after
\* the last pass `return responses`, through the finally clause
\* buffers is what audio_dict["tensor"] can hold.
JobVariation(s, buffers) ==
    /\ job[s].pc = "loop"
    /\ \E fate \in Fates, audio_float \in buffers, cast \in Casts :
           job' = [job EXCEPT ![s] =
               LET i == Len(job[s].responses)
                   final_path == WavFile(Uuid4(s, i), audio_float, cast)
               IN  IF Cancelled(s)
                   THEN Raise(s, "GenerationCancelledError", TRUE)
                   ELSE IF fate = "raised before write"
                   THEN Raise(s, "post-processing error", TRUE)
                   ELSE IF fate = "raised after write"
                   THEN [Raise(s, "post-processing error", TRUE) EXCEPT
                            !.files = Append(@, final_path)]
                   ELSE LET out == Append(job[s].responses,
                                          [audio_path |-> final_path.path,
                                           duration |-> job[s].duration,
                                           seed |-> job[s].seed])
                        IN  IF Len(out) = job[s].n
                            THEN [@ EXCEPT !.pc = "returned", !.responses = out,
                                           !.files = Append(@, final_path),
                                           !.cleared_after = TRUE]
                            ELSE [@ EXCEPT !.responses = out,
                                           !.files = Append(@, final_path)]]
    /\ UNCHANGED <<session, progress_queue, backlog, _handler, _handler_initialized,
                   enabled>>

\* ---------------------------------------------------------- specification

Next ==
    \E s \in Solo :
        \/ ClientDisconnect(s)
        \/ WsAccept(s)
        \/ WsReceive(s, WsFrames)
        \/ WsHandleRequest(s)
        \/ WsForward(s)
        \/ WsQueueEmpty(s)
        \/ WsCheckDone(s)
        \/ WsWake(s)
        \/ WsFinalForward(s)
        \/ WsResult(s)
        \/ CancelPropagate(s)
        \/ HttpReceive(s, HttpBodies)
        \/ HttpResult(s)
        \/ WorkerStart(s)
        \/ JobBegin(s)
        \/ JobLoadCheck(s)
        \/ JobLoadEnsure(s)
        \/ JobLoadNew(s)
        \/ JobLoadInit(s)
        \/ JobLoadSet(s)
        \/ JobLoadRet(s)
        \/ JobPrepare(s, Urandom)
        \/ JobEnterTry(s)
        \/ JobCallback(s)
        \/ JobGenReturn(s)
        \/ JobAfterGen(s)
        \/ JobVariation(s, OrdinaryBuffers)

Spec == Init /\ [][Next]_vars

\* Two HTTP requests at once: both pool workers busy
NextPool ==
    \E s \in Pool :
        \/ HttpReceive(s, PoolBodies)
        \/ HttpResult(s)
        \/ WorkerStart(s)
        \/ JobBegin(s)
        \/ JobLoadCheck(s)
        \/ JobLoadEnsure(s)
        \/ JobLoadNew(s)
        \/ JobLoadInit(s)
        \/ JobLoadSet(s)
        \/ JobLoadRet(s)
        \/ JobPrepare(s, Urandom)
        \/ JobEnterTry(s)
        \/ JobCallback(s)
        \/ JobGenReturn(s)
        \/ JobAfterGen(s)
        \/ JobVariation(s, OrdinaryBuffers)

SpecPool == Init /\ [][NextPool]_vars

\* Two HTTP requests and a WebSocket session: three jobs for two workers.  The
\* jobs are followed as far as the load of the engine components, which fails
\* or lasts: a job in it keeps its worker.
NextBacklog ==
    \/ \E s \in Pool :
           \/ HttpReceive(s, PoolBodies)
           \/ HttpResult(s)
    \/ \E s \in Waiters :
           \/ ClientDisconnect(s)
           \/ WsAccept(s)
           \/ WsReceive(s, WaiterFrames)
           \/ WsHandleRequest(s)
           \/ WsForward(s)
           \/ WsQueueEmpty(s)
           \/ WsCheckDone(s)
           \/ WsWake(s)
           \/ WsFinalForward(s)
           \/ WsResult(s)
           \/ CancelPropagate(s)
    \/ \E s \in Sessions :
           \/ WorkerStart(s)
           \/ JobBegin(s)
           \/ JobLoadCheck(s)
           \/ JobLoadEnsure(s)

SpecBacklog == Init /\ [][NextBacklog]_vars

\* One HTTP request after another parameter resolution: batch sizes inside and
\* outside 1..8, seeds absent, negative and of more than 31 bits
NextResolve ==
    \E s \in Solo :
        \/ HttpReceive(s, ResolveBodies)
        \/ HttpResult(s)
        \/ WorkerStart(s)
        \/ JobBegin(s)
        \/ JobLoadCheck(s)
        \/ JobLoadEnsure(s)
        \/ JobLoadNew(s)
        \/ JobLoadInit(s)
        \/ JobLoadSet(s)
        \/ JobLoadRet(s)
        \/ JobPrepare(s, ResolveUrandom)
        \/ JobEnterTry(s)
        \/ JobCallback(s)
        \/ JobGenReturn(s)
        \/ JobAfterGen(s)
        \/ JobVariation(s, OrdinaryBuffers)

SpecResolve == Init /\ [][NextResolve]_vars

\* One HTTP request whose model output is any buffer of QuantizeBuffers
NextQuantize ==
    \E s \in Solo :
        \/ HttpReceive(s, QuantizeBodies)
        \/ HttpResult(s)
        \/ WorkerStart(s)
        \/ JobBegin(s)
        \/ JobLoadCheck(s)
        \/ JobLoadEnsure(s)
        \/ JobLoadNew(s)
        \/ JobLoadInit(s)
        \/ JobLoadSet(s)
        \/ JobLoadRet(s)
        \/ JobPrepare(s, Urandom)
        \/ JobEnterTry(s)
        \/ JobCallback(s)
        \/ JobGenReturn(s)
        \/ JobAfterGen(s)
        \/ JobVariation(s, QuantizeBuffers)

SpecQuantize == Init /\ [][NextQuantize]_vars

\* One HTTP generation request and two unload requests, in any order
NextUnload ==
    \/ \E s \in Unloaders : DeleteModel(s, Models)
    \/ \E s \in Loaders :
           \/ HttpReceive(s, UnloadBodies)
           \/ HttpResult(s)
           \/ WorkerStart(s)
           \/ JobBegin(s)
           \/ JobLoadCheck(s)
           \/ JobLoadEnsure(s)
           \/ JobLoadNew(s)
           \/ JobLoadInit(s)
           \/ JobLoadSet(s)
           \/ JobLoadRet(s)
           \/ JobPrepare(s, Urandom)
           \/ JobEnterTry(s)
           \/ JobCallback(s)
           \/ JobGenReturn(s)
           \/ JobAfterGen(s)
           \/ JobVariation(s, OrdinaryBuffers)

SpecUnload == Init /\ [][NextUnload]_vars

\* Two HTTP jobs up to the return of _load_handler, and one unload request
NextRace ==
    \/ \E s \in Waiters : DeleteModel(s, KnownModels)
    \/ \E s \in Pool :
           \/ HttpReceive(s, UnloadBodies)
           \/ WorkerStart(s)
           \/ JobBegin(s)
           \/ JobLoadCheck(s)
           \/ JobLoadEnsure(s)
           \/ JobLoadNew(s)
           \/ JobLoadInit(s)
           \/ JobLoadSet(s)
           \/ JobLoadRet(s)

SpecRace == Init /\ [][NextRace]_vars

\* Three HTTP jobs, submitted at any times, up to the return of _load_handler
NextReload ==
    \E s \in Sessions :
        \/ HttpReceive(s, UnloadBodies)
        \/ WorkerStart(s)
        \/ JobBegin(s)
        \/ JobLoadCheck(s)
        \/ JobLoadEnsure(s)
        \/ JobLoadNew(s)
        \/ JobLoadInit(s)
        \/ JobLoadSet(s)
        \/ JobLoadRet(s)

SpecReload == Init /\ [][NextReload]_vars

\* One connection, WebSocket or HTTP, whose request has a quality mode or a
\* task type that is not enumerated
NextLenient ==
    \E s \in Solo :
        \/ ClientDisconnect(s)
        \/ WsAccept(s)
        \/ WsReceive(s, LenientFrames)
        \/ WsHandleRequest(s)
        \/ WsForward(s)
        \/ WsQueueEmpty(s)
        \/ WsCheckDone(s)
        \/ WsWake(s)
        \/ WsFinalForward(s)
        \/ WsResult(s)
        \/ CancelPropagate(s)
        \/ HttpReceive(s, LenientFrames)
        \/ HttpResult(s)
        \/ WorkerStart(s)
        \/ JobBegin(s)
        \/ JobLoadCheck(s)
        \/ JobLoadEnsure(s)
        \/ JobLoadNew(s)
        \/ JobLoadInit(s)
        \/ JobLoadSet(s)
        \/ JobLoadRet(s)
        \/ JobPrepare(s, Urandom)
        \/ JobEnterTry(s)
        \/ JobCallback(s)
        \/ JobGenReturn(s)
        \/ JobAfterGen(s)
        \/ JobVariation(s, OrdinaryBuffers)

SpecLenient == Init /\ [][NextLenient]_vars

\* Three calls of generate_with_mlx
NextMlx ==
    \E s \in Sessions :
        \/ GenerateWithMlx(s)
        \/ MlxTry(s)
        \/ MlxInner(s)
        \/ MlxExcept(s)

SpecMlx == Init /\ [][NextMlx]_vars

\* One download request and the load it submits to the pool
NextDownload ==
    \E s \in Solo :
        \/ DownloadReceive(s, Models)
        \/ DownloadFirst(s)
        \/ DownloadInit(s)
        \/ DownloadSubmit(s)
        \/ DownloadSleep(s)
        \/ DownloadTick(s)
        \/ DownloadResult(s)
        \/ DownloadComplete(s)
        \/ WorkerStart(s)
        \/ JobLoadCheck(s)
        \/ JobLoadEnsure(s)
        \/ JobLoadNew(s)
        \/ JobLoadInit(s)
        \/ JobLoadSet(s)
        \/ JobLoadRet(s)

SpecDownload == Init /\ [][NextDownload]_vars

\* ------------------------------------------------------------ properties

\* The progress events among the frames a session sent, in the order sent
EventsOf(frames) ==
    LET ps == SelectSeq(frames, LAMBDA f : f.type = "progress")
    IN  [i \in 1..Len(ps) |-> ProgressEvent(ps[i].progress, ps[i].message)]

IsPrefix(a, b) == Len(a) <= Len(b) /\ \A i \in 1..Len(a) : a[i] = b[i]

Terminal(f) == f.type \in {"complete", "error"}

NoTerminal(frames) == \A i \in 1..Len(frames) : ~Terminal(frames[i])

\* A request that ws_generate is to refuse, stated from the request's fields
Refused(r) ==
    \/ ~r.wf
    \/ r.model \notin KnownModels
    \/ r.duration > MaxDuration
    \/ r.task_type \in {"cover", "repaint"} /\ r.source_audio_path # "exists"
    \/ r.task_type = "repaint" /\ r.repainting_end = NoEnd

\* The session has looked at its request.
Handled(s) ==
    \/ session[s].kind = "http"
    \/ session[s].kind = "ws" /\ session[s].pc \notin {"accept", "parse"}

\* C1: in every WebSocket session the progress frames sent are, in order, the
\* events the worker published, and a complete or error frame is the last
\* frame of the session: nothing is ever sent after it.
C1_OrderedAndTerminalLast ==
    \A s \in Sessions :
        /\ IsPrefix(EventsOf(session[s].sent), job[s].published)
        /\ \A i \in 1..Len(session[s].sent) :
               Terminal(session[s].sent[i]) => i = Len(session[s].sent)

\* A session that forwarded four progress events and a heartbeat and ended
\* with the complete frame
C1_Witness ==
    \E s \in Sessions :
        /\ session[s].pc = "closed"
        /\ Len(EventsOf(session[s].sent)) >= 4
        /\ \E i \in 1..Len(session[s].sent) : session[s].sent[i].type = "heartbeat"
        /\ session[s].sent[Len(session[s].sent)].type = "complete"

\* C2: when the client stayed connected and the session reported the outcome
\* of its job, every event the worker published has been forwarded, those
\* published between the loop's last drain and the done check included.
C2_NoEventLost ==
    \A s \in Sessions :
        (/\ session[s].kind = "ws"
         /\ session[s].pc = "closed"
         /\ session[s].submitted
         /\ session[s].connected)
        => /\ EventsOf(session[s].sent) = job[s].published
           /\ Terminal(session[s].sent[Len(session[s].sent)])

\* A session whose step 5 forwarded an event and that ended with complete
C2_Witness ==
    \E s \in Sessions :
        /\ session[s].pc = "closed"
        /\ session[s].connected
        /\ session[s].drained_late
        /\ session[s].sent[Len(session[s].sent)].type = "complete"

\* C3 as stated: a session whose client disconnected between the submission and
\* the end of the job has set the token, has called gen_future.cancel() and
\* has sent no complete and no error frame.
C3_CancelAlwaysAttempted ==
    \A s \in Sessions :
        (session[s].pc = "closed" /\ session[s].disc_at = "pending")
        => /\ session[s].cancel_event
           /\ session[s].cancel_called
           /\ NoTerminal(session[s].sent)

\* C3 as amended: when a session whose client disconnected between the
\* submission and the end of the job ends, the token is set, no complete and
\* no error frame was sent, and gen_future.cancel() is called exactly when the
\* job has not finished by the time the session notices the disconnect; a
\* session that ended changes nothing afterwards.
C3_DisconnectCancels ==
    [][\A s \in Sessions :
          /\ (/\ session[s].pc # "closed"
              /\ session'[s].pc = "closed"
              /\ session'[s].disc_at = "pending")
             => /\ session'[s].cancel_event
                /\ session'[s].cancel_called <=> ~Finished(s)
                /\ NoTerminal(session'[s].sent)
          /\ session[s].pc = "closed" => session'[s] = session[s]]_vars

\* A session that noticed the disconnect while its job was running
C3_Witness ==
    \E s \in Sessions :
        /\ session[s].pc = "closed"
        /\ session[s].disc_at = "pending"
        /\ session[s].cancel_called
        /\ job[s].pc = "gen"

\* C4 as stated, for the shared model state: once a job has ended with an
\* exception, a job that finds _handler_initialized set is given, as _handler,
\* an instance whose initialization succeeded.
C4_ModelUsableAfterFailure ==
    (\E t \in Sessions : job[t].pc = "raised")
    => (_handler_initialized => _handler \in enabled)

\* C5: with the token set, a checkpoint before the model is acquired or before
\* inference raises the cancellation error, a callback invocation raises, and
\* no step of the job publishes an event; a job whose token was set before it
\* started never calls _load_handler nor generate_music.
C5_CheckpointsRaise ==
    [][\A s \in Sessions :
          /\ (session[s].kind = "ws" /\ session[s].cancel_event)
             => /\ job'[s].published = job[s].published
                /\ (job[s].pc \in {"chk1", "prepare", "enter"} /\ job'[s] # job[s])
                   => (job'[s].pc = "raised"
                       /\ job'[s].exc = "GenerationCancelledError")
                /\ (job[s].pc = "gen" /\ job'[s].cb > job[s].cb)
                   => job'[s].cb_raised
          /\ job'[s].started_cancelled
             => ~job'[s].loaded /\ ~job'[s].gen_kwargs.called]_vars

\* A job cancelled by a callback invocation during inference
C5_Witness ==
    \E s \in Sessions :
        /\ job[s].cb_raised
        /\ job[s].pc = "raised"
        /\ job[s].exc = "GenerationCancelledError"
        /\ Len(job[s].published) >= 3

\* C6 as stated: every job that has ended cleared the accelerator cache once
\* before it and once after it, whatever way it ended.
C6_CacheClearedOnEveryExit ==
    \A s \in Sessions :
        Finished(s) => job[s].cleared_before /\ job[s].cleared_after

\* C7: a WebSocket session that handled a malformed frame or a request that
\* fails validation has submitted no job, no progress event exists, and the one
\* frame it sent (the client still being there) is an error frame.
C7_RefusedNoJob ==
    \A s \in Sessions :
        (session[s].kind = "ws" /\ Handled(s) /\ Refused(session[s].request))
        => /\ session[s].pc = "closed"
           /\ ~session[s].submitted
           /\ job[s] = InitJob
           /\ progress_queue[s] = <<>>
           /\ IF session[s].connected
              THEN /\ Len(session[s].sent) = 1
                   /\ session[s].sent[1].type = "error"
              ELSE session[s].sent = <<>>

\* A cover request whose source audio does not exist, answered with an error
C7_Witness ==
    \E s \in Sessions :
        /\ session[s].kind = "ws"
        /\ session[s].pc = "closed"
        /\ session[s].request.task_type = "cover"
        /\ session[s].request.source_audio_path = "missing"
        /\ Len(session[s].sent) = 1
        /\ session[s].sent[1].type = "error"

\* C8 as stated: an HTTP request that fails validation, a cover or repaint
\* request without an existing source audio and a repaint request without an
\* end time included, is answered before any job is submitted.
C8_HttpRefusedNoJob ==
    \A s \in Sessions :
        (session[s].kind = "http" /\ Refused(session[s].request))
        => ~session[s].submitted /\ job[s] = InitJob

\* The frame or response that cites the configured maximum
CitesMaximum(detail, r) ==
    detail = ErrorDetail("Max duration", <<MaxDuration, r.duration>>)

\* C9: on both paths a request for a known model with duration > max_duration
\* is refused with an error citing the maximum and no job is submitted, and a
\* request with duration <= max_duration is never refused for its duration.
C9_DurationCheck ==
    \A s \in Sessions :
        LET r == session[s].request
        IN  (Handled(s) /\ r.wf /\ r.model \in KnownModels)
            => IF r.duration > MaxDuration
               THEN /\ ~session[s].submitted
                    /\ job[s] = InitJob
                    /\ session[s].kind = "http"
                       => /\ session[s].response.status = 400
                          /\ CitesMaximum(session[s].response.detail, r)
                    /\ (session[s].kind = "ws" /\ session[s].connected)
                       => /\ Len(session[s].sent) = 1
                          /\ session[s].sent[1].type = "error"
                          /\ CitesMaximum(session[s].sent[1].detail, r)
               ELSE /\ session[s].response.detail.text # "Max duration"
                    /\ \A i \in 1..Len(session[s].sent) :
                           session[s].sent[i].type = "error"
                           => session[s].sent[i].detail.text # "Max duration"

\* An HTTP request at exactly the maximum, submitted
C9_Witness ==
    \E s \in Sessions :
        /\ session[s].kind = "http"
        /\ session[s].request.duration = MaxDuration
        /\ session[s].submitted

\* C10 as stated: the audio_duration of every call of the model is at most the
\* model's max_duration.
C10_EffectiveDurationBounded ==
    \A s \in Sessions :
        job[s].gen_kwargs.called => job[s].gen_kwargs.audio_duration <= MaxDuration

\* The progress values among the frames a session sent, in the order sent
ProgressValues(frames) ==
    LET ps == SelectSeq(frames, LAMBDA f : f.type = "progress")
    IN  [i \in 1..Len(ps) |-> ps[i].progress]

\* C11 as stated: the progress values a client observes in one WebSocket
\* session never decrease and every one of them lies in [0, 1].
C11_ProgressMonotone ==
    \A s \in Sessions :
        LET v == ProgressValues(session[s].sent)
        IN  /\ \A i \in 1..Len(v) : 0 <= v[i] /\ v[i] <= 1000
            /\ \A i \in 1..Len(v) - 1 : v[i] <= v[i + 1]

\* C12 as stated: with no unload in between, at most one handler instance is
\* created and initialized, also when two pool workers start their first jobs
\* at the same time.
C12_SingleInstance == Cardinality(enabled) <= 1

\* C13: at most MaxWorkers jobs occupy a worker at any time; a job leaves the
\* backlog only when a worker is free and no job submitted before it still
\* waits; and the WebSocket session of a job that waits in the backlog has
\* sent nothing but heartbeats.
C13_PoolAdmission ==
    [][\A s \in Sessions :
          /\ Busy(job) <= MaxWorkers /\ Busy(job') <= MaxWorkers
          /\ (job[s].pc = "queued" /\ job'[s].pc \notin {"queued", "skipped"})
             => /\ Busy(job) < MaxWorkers
                /\ \A t \in Sessions :
                       job[t].pc = "queued" => job[t].ticket >= job[s].ticket
          /\ (session'[s].kind = "ws" /\ job'[s].pc = "queued")
             => \A i \in 1..Len(session'[s].sent) :
                    session'[s].sent[i].type = "heartbeat"]_vars

\* The third job submitted, a WebSocket session's, has started after its
\* session sent heartbeats while both workers were busy
C13_Witness ==
    \E s \in Sessions :
        /\ session[s].kind = "ws"
        /\ job[s].ticket = MaxWorkers
        /\ Running(s)
        /\ Heartbeats(s) >= 1
        /\ Busy(job) = MaxWorkers

\* C14: a session's token is unset when the session is created, is never
\* cleared once set, and the step that sets it is a step of that session
\* alone, taken because the client is gone or because an exception reached
\* the session, which sends the error frame: it changes no job and no other
\* session's token.
C14_TokenSetOnceByProtocol ==
    [][\A s \in Sessions :
          /\ session[s].kind = "none" => ~session[s].cancel_event
          /\ session[s].cancel_event => session'[s].cancel_event
          /\ (~session[s].cancel_event /\ session'[s].cancel_event)
             => /\ job' = job
                /\ session[s].kind = "ws"
                /\ session'[s].pc = "closed"
                /\ \A t \in Sessions \ {s} :
                       session'[t].cancel_event = session[t].cancel_event
                /\ \/ ~session[s].connected
                   \/ /\ session'[s].sent # session[s].sent
                      /\ session'[s].sent[Len(session'[s].sent)].type = "error"]_vars

\* A session that set its token when its job's exception reached it, the
\* client still connected
C14_Witness ==
    \E s \in Sessions :
        /\ session[s].kind = "ws"
        /\ session[s].cancel_event
        /\ session[s].connected
        /\ job[s].pc = "raised"
        /\ session[s].sent[Len(session[s].sent)].type = "error"

\* progress_cb(0.85, "Processing audio...")
ProcessingAudio == ProgressEvent(850, "Processing audio")

\* How often event ev was published
Count(events, ev) == Cardinality({i \in 1..Len(events) : events[i] = ev})

\* The text of the error of a job whose model result was found not successful
\* or without audio
FailureText(j) ==
    IF j.result = "fail"
    THEN "RuntimeError: Generation failed: "
             \o (IF j.error = "None" THEN "Unknown generation error" ELSE j.error)
    ELSE "RuntimeError: Generation produced no audio"

\* C15: a job whose model result is not marked successful ends with
\* "Generation failed: " and the message the model reported, without having
\* published the 0.85 event; a job whose successful result has no audio ends
\* with "Generation produced no audio", the 0.85 event published once, before
\* the check; either job wrote no file, and its WebSocket session sent no
\* complete frame and, the client connected, ends with the error frame of that
\* text (the HTTP request is answered 500 with it).
C15_ModelFailureReported ==
    \A s \in Sessions :
        (/\ job[s].pc = "raised"
         /\ job[s].result \in {"fail", "empty"}
         /\ job[s].exc # "GenerationCancelledError")
        => /\ job[s].exc = FailureText(job[s])
           /\ job[s].responses = <<>>
           /\ Count(job[s].published, ProcessingAudio)
                  = (IF job[s].result = "empty" /\ session[s].kind = "ws" THEN 1 ELSE 0)
           /\ \A i \in 1..Len(session[s].sent) : session[s].sent[i].type # "complete"
           /\ (session[s].kind = "ws" /\ session[s].pc = "closed" /\ session[s].connected)
              => session[s].sent[Len(session[s].sent)]
                     = ErrorFrame(ErrorDetail(FailureText(job[s]), <<>>))
           /\ (session[s].kind = "http" /\ session[s].pc = "closed")
              => /\ session[s].response.status = 500
                 /\ session[s].response.detail = ErrorDetail(FailureText(job[s]), <<>>)

\* A session that ended with the error frame carrying the model's message
C15_Witness ==
    \E s \in Sessions :
        /\ session[s].kind = "ws"
        /\ session[s].pc = "closed"
        /\ job[s].result = "fail"
        /\ job[s].error # "None"
        /\ session[s].sent # <<>>
        /\ session[s].sent[Len(session[s].sent)]
               = ErrorFrame(ErrorDetail("RuntimeError: Generation failed: out of memory", <<>>))

\* The complete frames among the frames a session sent
CompleteFrames(s) ==
    {i \in 1..Len(session[s].sent) : session[s].sent[i].type = "complete"}

\* C16: each pass of the loop appends the response of the next index; a pass
\* that fails or is cancelled ends the job with the exception, no later
\* variation is processed, and the caller gets no result: no complete frame
\* and no 200 response, only a result of all the variations or none.
C16_NoPartialBatch ==
    [][\A s \in Sessions :
          /\ job[s].pc = "raised" => job'[s] = job[s]
          /\ (job[s].pc = "loop" /\ job'[s].pc # "raised")
             => \/ job'[s] = job[s]
                \/ job'[s].responses =
                       Append(job[s].responses,
                              [job'[s].responses[Len(job'[s].responses)] EXCEPT
                                  !.audio_path = <<s, Len(job[s].responses)>>])
          /\ (job[s].pc = "loop" /\ job'[s].pc = "raised")
             => job'[s].responses = job[s].responses
          /\ (job'[s].pc # "returned" \/ Len(job'[s].responses) # job'[s].n)
             => /\ CompleteFrames(s)' = {}
                /\ session'[s].response.status # 200]_vars

\* A session whose job failed at its second variation and that ended with the
\* error frame
C16_Witness ==
    \E s \in Sessions :
        /\ job[s].pc = "raised"
        /\ job[s].n = 2
        /\ Len(job[s].responses) = 1
        /\ session[s].pc = "closed"
        /\ session[s].sent # <<>>
        /\ session[s].sent[Len(session[s].sent)].type = "error"

\* C17 as stated: the result of a successful job has exactly as many entries
\* as the clamped batch size of its request, in variation order, and so have
\* the audio_paths and durations of the complete frame built from it, whose
\* audio_path and duration are the first entry's and whose seed is the
\* effective seed passed to the model.
C17_ResultHasBatchSizeEntries ==
    \A s \in Sessions :
        LET b == ClampBatch(session[s].request.batch_size)
        IN  /\ job[s].pc = "returned"
               => /\ Len(job[s].responses) = b
                  /\ \A i \in 1..Len(job[s].responses) :
                         job[s].responses[i].audio_path = <<s, i - 1>>
            /\ \A i \in CompleteFrames(s) :
                   LET f == session[s].sent[i]
                   IN  /\ Len(f.audio_paths) = b
                       /\ Len(f.durations) = b
                       /\ f.audio_path = f.audio_paths[1]
                       /\ f.duration = f.durations[1]
                       /\ f.seed = job[s].gen_kwargs.seed

\* The job of an HTTP request ended inside _load_handler: the engine could not
\* be made ready.
LoadFailed(s) ==
    job[s].pc = "raised" /\ job[s].loaded /\ job[s].handler = "None"

\* C18 as stated: an HTTP request refused by the validation is answered 400,
\* one whose model could not be made ready is answered with a status that is
\* neither a client error nor the 500 of an internal failure, and one whose
\* generation failed is answered 500.
C18_StatusPerErrorKind ==
    \A s \in Sessions :
        (session[s].kind = "http" /\ session[s].pc = "closed")
        => /\ ~session[s].submitted => session[s].response.status = 400
           /\ LoadFailed(s) => session[s].response.status \notin {200, 400, 500}
           /\ (job[s].pc = "raised" /\ ~LoadFailed(s))
              => session[s].response.status = 500

\* C19: the batch size passed to the model is the requested one when it is in
\* 1..8, 1 when it is below 1 (0 and negatives included) and 8 when it is
\* above 8.
C19_BatchClamped ==
    \A s \in Sessions :
        LET b == session[s].request.batch_size
        IN  job[s].gen_kwargs.called
            => /\ (MinBatch <= b /\ b <= MaxBatch) => job[s].gen_kwargs.batch_size = b
               /\ b < MinBatch => job[s].gen_kwargs.batch_size = MinBatch
               /\ b > MaxBatch => job[s].gen_kwargs.batch_size = MaxBatch

\* The model called with 1 for a request of 0
C19_Witness ==
    \E s \in Sessions :
        /\ job[s].gen_kwargs.called
        /\ session[s].request.batch_size = 0
        /\ job[s].gen_kwargs.batch_size = MinBatch

\* C20: the seed passed to the model lies in 0 .. 2^31 - 1 and random seeding
\* is disabled; for a request with a seed it is the low 31 bits of that seed,
\* whatever its sign and size, hence a function of the request alone, and it
\* is the seed of every response of the job.
C20_SeedMasked ==
    \A s \in Sessions :
        LET seed == session[s].request.seed
        IN  job[s].gen_kwargs.called
            => /\ 0 <= job[s].gen_kwargs.seed /\ job[s].gen_kwargs.seed <= SeedMask
               /\ ~job[s].gen_kwargs.use_random_seed
               /\ seed # <<>> => job[s].gen_kwargs.seed = seed[1].lo
               /\ \A i \in 1..Len(job[s].responses) :
                      job[s].responses[i].seed = job[s].gen_kwargs.seed

\* The seed -1 passed to the model as 2^31 - 1, the job answered 200
C20_Witness ==
    \E s \in Sessions :
        /\ job[s].pc = "returned"
        /\ session[s].request.seed = <<PyInt(-1, SeedMask)>>
        /\ job[s].gen_kwargs.seed = SeedMask
        /\ session[s].response.status = 200

\* The status reported to an unload request
Reported(s) == session[s].response.body[1].status

\* C21: an unload of "acestep" while the model is loaded clears _handler and
\* _handler_initialized and reports deleted; any other unload changes neither
\* and reports not_loaded; and an unload repeated right after it reports
\* not_loaded and leaves the state as the first left it.
C21_UnloadIdempotent ==
    [][\A s \in Sessions :
          (session[s].kind = "none" /\ session'[s].kind = "delete")
          => LET name == session'[s].request.model
                 again == Unloaded(name, _handler', _handler_initialized')
             IN  /\ IF name = "acestep" /\ _handler_initialized
                    THEN /\ _handler' = "None"
                         /\ ~_handler_initialized'
                         /\ Reported(s)' = "deleted"
                    ELSE /\ _handler' = _handler
                         /\ _handler_initialized' = _handler_initialized
                         /\ Reported(s)' = "not_loaded"
                 /\ again.status = "not_loaded"
                 /\ again.handler = _handler'
                 /\ again.initialized = _handler_initialized'
                 /\ UNCHANGED <<job, progress_queue, backlog, enabled>>]_vars

\* The loaded model unloaded by one request, and a second request answered
\* not_loaded
C21_Witness ==
    \E s, t \in Sessions :
        /\ session[s].kind = "delete" /\ session[t].kind = "delete"
        /\ session[s].request.model = "acestep"
        /\ session[t].request.model = "acestep"
        /\ Reported(s) = "deleted"
        /\ Reported(t) = "not_loaded"
        /\ _handler = "None" /\ ~_handler_initialized

\* C22 speaks of a job that ends with the cancellation error while its
\* session is still running.  No such state exists: a job ends with the
\* cancellation error only after its session has set the token, which the
\* session does as its last step.
C22_CancellationOnlyAfterSessionEnd ==
    \A s \in Sessions :
        job[s].exc = "GenerationCancelledError"
        => /\ session[s].pc = "closed"
           /\ session[s].cancel_event
           /\ \A i \in 1..Len(session[s].sent) : session[s].sent[i].type # "complete"

\* The session sends a heartbeat in this step.
SendsHeartbeat(s) ==
    /\ session'[s].sent # session[s].sent
    /\ session'[s].sent[Len(session'[s].sent)] = Heartbeat

\* C23: the loop leaves its drain for the done check only with the queue found
\* empty, every event taken from the queue being forwarded (to a connected
\* client, events forwarded and events queued are the events published); a
\* heartbeat is sent only at the done check of an iteration that found the
\* future not done, is followed by the suspension, which sends nothing and
\* leads back to the drain; once the future was found done no heartbeat is
\* sent.
C23_DrainThenHeartbeat ==
    [][\A s \in Sessions :
          /\ (session[s].pc = "drain" /\ session'[s].pc = "check")
             => progress_queue[s] = <<>> /\ session'[s].sent = session[s].sent
          /\ (session[s].connected /\ session[s].pc \in {"drain", "check", "sleep"})
             => EventsOf(session[s].sent) \o progress_queue[s] = job[s].published
          /\ SendsHeartbeat(s)
             => /\ session[s].pc = "check"
                /\ ~FutureDone(s)
                /\ session'[s].pc = "sleep"
                /\ session'[s].sent = Append(session[s].sent, Heartbeat)
          /\ (session[s].pc = "check" /\ session'[s].pc = "sleep") => SendsHeartbeat(s)
          /\ (session[s].pc = "sleep" /\ session'[s] # session[s])
             => \/ session'[s] = [session[s] EXCEPT !.pc = "drain"]
                \/ ~session'[s].connected /\ session'[s].sent = session[s].sent
          /\ session[s].pc \in {"final", "closed"}
             => session'[s].pc \in {"final", "closed"} /\ ~SendsHeartbeat(s)]_vars

\* A session that forwarded events, sent a heartbeat, forwarded the events
\* published meanwhile and ended with the complete frame
C23_Witness ==
    \E s \in Sessions :
        /\ session[s].pc = "closed"
        /\ \E i \in 2..Len(session[s].sent) - 2 :
               /\ session[s].sent[i - 1].type = "progress"
               /\ session[s].sent[i].type = "heartbeat"
               /\ session[s].sent[i + 1].type = "progress"
        /\ session[s].sent[Len(session[s].sent)].type = "complete"

\* The state of the session's state machine that a position of ws_generate
\* belongs to
Phase(pc) ==
    CASE pc \in {"idle", "accept"} -> "AWAIT_REQUEST"
      [] pc = "parse" -> "VALIDATING"
      [] pc \in {"drain", "check", "sleep"} -> "RUNNING"
      [] pc = "final" -> "DRAINING"
      [] pc = "closed" -> "TERMINAL"

\* The transitions of the state machine, the early exits included
Transitions ==
    {<<"AWAIT_REQUEST", "VALIDATING">>, <<"VALIDATING", "RUNNING">>,
     <<"RUNNING", "DRAINING">>, <<"DRAINING", "TERMINAL">>,
     <<"AWAIT_REQUEST", "TERMINAL">>, <<"VALIDATING", "TERMINAL">>,
     <<"RUNNING", "TERMINAL">>}

\* The complete and error frames a session sent
TerminalFrames(s) ==
    {i \in 1..Len(session[s].sent) : Terminal(session[s].sent[i])}

\* C24: a WebSocket session changes state only along the transitions of its
\* state machine; it reads its request once, on leaving AWAIT_REQUEST; it
\* submits its job once, on the transition VALIDATING -> RUNNING, the request
\* having passed every check; and a session that ended with its client
\* connected and its job finished has sent exactly one terminal frame,
\* complete for a job that returned and error for one that raised.
C24_SessionStateMachine ==
    [][\A s \in Sessions : session[s].kind = "ws" =>
          /\ \/ Phase(session'[s].pc) = Phase(session[s].pc)
             \/ <<Phase(session[s].pc), Phase(session'[s].pc)>> \in Transitions
          /\ session'[s].request # session[s].request
             => Phase(session[s].pc) = "AWAIT_REQUEST"
                /\ Phase(session'[s].pc) = "VALIDATING"
          /\ (session'[s].submitted # session[s].submitted \/ job'[s].ticket # job[s].ticket
              \/ (job[s].pc = "none" /\ job'[s].pc # "none"))
             => /\ Phase(session[s].pc) = "VALIDATING"
                /\ Phase(session'[s].pc) = "RUNNING"
                /\ ~session[s].submitted /\ session'[s].submitted
                /\ job[s] = InitJob /\ job'[s].pc = "queued"
                /\ ~Refused(session[s].request)
          /\ Phase(session[s].pc) \in {"AWAIT_REQUEST", "VALIDATING"}
             => ~session[s].submitted
          /\ (session'[s].pc = "closed" /\ session'[s].connected /\ session'[s].submitted)
             => /\ Finished(s)
                /\ Cardinality(TerminalFrames(s)') = 1
                /\ session'[s].sent[Len(session'[s].sent)].type
                       = (IF job[s].pc = "returned" THEN "complete" ELSE "error")]_vars

\* A session that went through every state and ended with the one error frame
\* of a job that raised during post-processing
C24_Witness ==
    \E s \in Sessions :
        /\ session[s].kind = "ws"
        /\ session[s].pc = "closed"
        /\ session[s].connected
        /\ job[s].exc = "post-processing error"
        /\ session[s].drained_late
        /\ Cardinality(TerminalFrames(s)) = 1
        /\ session[s].sent[Len(session[s].sent)].type = "error"

\* The exception that reaches the except clause of the session in its next
\* step, as ErrorDetail: of a frame that cannot be parsed, or of the job,
\* raised again by gen_future.result(); NoError if there is none
Reaching(s) ==
    IF session[s].pc = "parse" /\ ~session[s].request.wf
    THEN ErrorDetail("malformed request", <<>>)
    ELSE IF /\ session[s].pc = "final"
            /\ progress_queue[s] = <<>>
            /\ job[s].pc = "raised"
            /\ job[s].exc # "GenerationCancelledError"
    THEN ErrorDetail(job[s].exc, <<>>)
    ELSE NoError

\* C25: the step in which an exception reaches the session ends the session;
\* with the client connected it sends one frame, the error frame with the
\* exception's text, and with the client gone it sends nothing, the failure
\* of the send is swallowed and the handler returns; a session that ended
\* sends nothing more, so the frame is the last one and is never sent again.
C25_ErrorFrameBestEffort ==
    [][\A s \in Sessions :
          /\ (session[s].kind = "ws" /\ Reaching(s) # NoError /\ session'[s] # session[s])
             => \/ /\ session'[s].connected = session[s].connected
                   /\ session'[s].pc = "closed"
                   /\ session'[s].sent =
                          (IF session[s].connected
                           THEN Append(session[s].sent, ErrorFrame(Reaching(s)))
                           ELSE session[s].sent)
                   /\ session'[s].error_swallowed = ~session[s].connected
                \/ /\ session[s].connected /\ ~session'[s].connected
                   /\ session'[s].pc = session[s].pc
                   /\ session'[s].sent = session[s].sent
          /\ session[s].pc = "closed" => session'[s].sent = session[s].sent
          /\ session'[s].pc \in {"idle", "accept", "parse", "drain", "check", "sleep",
                                 "final", "await", "closed"}]_vars

\* A session whose job raised after its client had left: the error frame could
\* not be sent and the session ended
C25_Witness ==
    \E s \in Sessions :
        /\ session[s].pc = "closed"
        /\ session[s].error_swallowed
        /\ job[s].pc = "raised"
        /\ NoTerminal(session[s].sent)

\* C26: the model is called with 4 inference steps for a draft request, 8 for
\* a fast one and 50 for a quality one.
C26_StepsPerTier ==
    \A s \in Sessions :
        job[s].gen_kwargs.called =>
            /\ session[s].request.quality_mode = "draft" =>
                   job[s].gen_kwargs.inference_steps = 4
            /\ session[s].request.quality_mode = "fast" =>
                   job[s].gen_kwargs.inference_steps = 8
            /\ session[s].request.quality_mode = "quality" =>
                   job[s].gen_kwargs.inference_steps = 50

\* The model was called for a request of the quality tier
C26_Witness ==
    \E s \in Sessions :
        /\ job[s].gen_kwargs.called
        /\ session[s].request.quality_mode = "quality"
        /\ job[s].gen_kwargs.inference_steps = QualitySteps

\* The files that job s has written
Files(s) == {job[s].files[i].path : i \in 1..Len(job[s].files)}

\* C27: a job that returned its result has written one file for each entry of
\* the batch the model returned, the files its result names in order, and no
\* path has been written twice: not by two passes of one job, not by two jobs.
C27_FreshPathPerFile ==
    /\ \A s \in Sessions :
           /\ job[s].pc = "returned" =>
                  /\ Len(job[s].files) = job[s].n
                  /\ Len(job[s].responses) = job[s].n
                  /\ \A i \in 1..job[s].n :
                         job[s].responses[i].audio_path = job[s].files[i].path
           /\ Cardinality(Files(s)) = Len(job[s].files)
    /\ \A s, u \in Sessions : s # u => Files(s) \cap Files(u) = {}

\* Two jobs in the loop over their batches of two at once, each with a file
\* written
C27_Witness ==
    \E s, u \in Sessions :
        /\ s # u
        /\ job[s].pc = "loop" /\ Len(job[s].files) = 1
        /\ job[u].pc = "loop" /\ Len(job[u].files) = 1

\* The buffers of the files written
Written == UNION {{job[s].files[i] : i \in 1..Len(job[s].files)} : s \in Sessions}
AllFinite(buf) == \A i \in DOMAIN buf : buf[i].k = "fin"
PeakIsHeadroom(buf) ==
    /\ Peak(buf).k = "fin"
    /\ Peak(buf).n * 100 = Headroom * Peak(buf).d

\* C28 as stated: a buffer whose peak is 0 is written as it is, all its
\* samples 0; any other buffer is scaled so that its peak is 0.95, and no
\* sample times 32767 leaves the range of a signed 16-bit integer.
C28_NormalizedAndInRange ==
    \A f \in Written :
        /\ Peak(f.input) = Fin(0) =>
               /\ f.scaled = f.input
               /\ \A i \in DOMAIN f.pcm : f.pcm[i] = 0
        /\ Peak(f.input) # Fin(0) => PeakIsHeadroom(f.scaled)
        /\ \A i \in DOMAIN f.scaled : ~Overflows(f.scaled[i])

\* What holds of the buffers whose samples are all finite: the statement of
\* C28, with the written samples equal to the truncated products
C28_FiniteBuffersInRange ==
    \A f \in Written :
        AllFinite(f.input) =>
            /\ Peak(f.input) = Fin(0) =>
                   /\ f.scaled = f.input
                   /\ \A i \in DOMAIN f.pcm : f.pcm[i] = 0
            /\ Peak(f.input) # Fin(0) => PeakIsHeadroom(f.scaled)
            /\ \A i \in DOMAIN f.scaled :
                   /\ ~Overflows(f.scaled[i])
                   /\ f.pcm[i] = Scaled(f.scaled[i])

\* The job of s has a token and it is set
TokenSet(s) == session[s].kind = "ws" /\ session[s].cancel_event

\* C29: the token is never cleared.  A job whose token is set before its model
\* call has returned, or before the checkpoint that follows the call, never
\* enters the loop over the audio: it writes no file and returns no result,
\* and when the model call has returned its next step raises the cancellation
\* error, whether or not the progress callback was ever invoked.  A job that
\* has returned its result keeps it, whatever happens to the token afterwards.
C29_CancelObservedAfterCall ==
    [][\A s \in Sessions :
          /\ session[s].cancel_event => session'[s].cancel_event
          /\ (TokenSet(s) /\ job[s].pc \notin {"loop", "returned"})
             => /\ job'[s].pc \notin {"loop", "returned"}
                /\ job'[s].files = <<>>
                /\ job'[s].responses = <<>>
          /\ (TokenSet(s) /\ job[s].pc = "after" /\ job'[s] # job[s])
             => /\ job'[s].pc = "raised"
                /\ job'[s].exc = "GenerationCancelledError"
          /\ job[s].pc = "returned" => job'[s] = job[s]]_vars

\* A job cancelled at the checkpoint after a model call that returned a
\* successful result without ever invoking the progress callback
C29_Witness ==
    \E s \in Sessions :
        /\ job[s].pc = "raised"
        /\ job[s].exc = "GenerationCancelledError"
        /\ job[s].gen_kwargs.called
        /\ job[s].result = "ok"
        /\ job[s].cb = 0
        /\ job[s].files = <<>>

\* A job that returned its result, its token set after its last checkpoint
C29_ReturnedThenCancelled ==
    \E s \in Sessions :
        /\ job[s].pc = "returned"
        /\ TokenSet(s)
        /\ job[s].files # <<>>

\* C30: the model is called with the instruction of the task (cover, repaint,
\* and the text2music one for any other task); with the source audio for a
\* cover and a repaint only; with the reference audio and the requested
\* strength for a cover only, the strength 1.0 otherwise; with the repaint
\* window, as far as the request gives it, for a repaint only.
C30_ModeSpecificArguments ==
    \A s \in Sessions :
        LET r == session[s].request
            k == job[s].gen_kwargs
        IN  k.called =>
                /\ r.task_type = "cover" =>
                       /\ k.instruction =
                              "Generate audio semantic tokens based on the given conditions:"
                       /\ k.src_audio = r.source_audio_path
                       /\ k.reference_audio = r.source_audio_path
                       /\ k.audio_cover_strength = r.ref_audio_strength
                       /\ k.repainting_start = <<>> /\ k.repainting_end = <<>>
                /\ r.task_type = "repaint" =>
                       /\ k.instruction = "Repaint the mask area based on the given conditions:"
                       /\ k.src_audio = r.source_audio_path
                       /\ k.reference_audio = "None"
                       /\ k.audio_cover_strength = 100
                       /\ k.repainting_start =
                              (IF r.repainting_start = -1 THEN <<>> ELSE <<r.repainting_start>>)
                       /\ k.repainting_end =
                              (IF r.repainting_end = -1 THEN <<>> ELSE <<r.repainting_end>>)
                /\ r.task_type \notin {"cover", "repaint"} =>
                       /\ k.instruction =
                              "Fill the audio semantic mask based on the given conditions:"
                       /\ k.src_audio = "None"
                       /\ k.reference_audio = "None"
                       /\ k.audio_cover_strength = 100
                       /\ k.repainting_start = <<>> /\ k.repainting_end = <<>>

\* The model was called for a text2music request that names a source audio, a
\* strength and a repaint window
C30_Witness ==
    \E s \in Sessions :
        /\ job[s].gen_kwargs.called
        /\ session[s].request.task_type = "text2music"
        /\ session[s].request.source_audio_path = "exists"
        /\ session[s].request.ref_audio_strength = 80
        /\ session[s].request.repainting_start = 5
        /\ session[s].request.repainting_end = 10
        /\ job[s].gen_kwargs.src_audio = "None"

\* The model was called for a cover with the requested strength
C30_CoverCalled ==
    \E s \in Sessions :
        /\ job[s].gen_kwargs.called
        /\ session[s].request.task_type = "cover"
        /\ job[s].gen_kwargs.reference_audio = "exists"
        /\ job[s].gen_kwargs.audio_cover_strength = 80

\* The lines of a stream that end it
TerminalLines(lines) == {i \in 1..Len(lines) : lines[i].status \in {"complete", "error"}}

\* C31: the progress values of a download stream never decrease: 0.1, 0.15,
\* then ticks of which none is above 0.75, then 0.85 and 1.0.  A stream has at
\* most one terminal line and nothing after it; a stream that ended has one:
\* complete if and only if the load returned, error if and only if it raised.
\* An unknown model is answered 400 and no load is submitted.
C31_DownloadStream ==
    \A s \in Sessions :
        session[s].kind = "download" =>
            LET lines == session[s].sent
                known == session[s].request.model \in {"acestep"}
            IN  /\ \A i, j \in 1..Len(lines) :
                       (i < j /\ lines[i].status # "error" /\ lines[j].status # "error")
                           => lines[i].progress <= lines[j].progress
                /\ \A i \in 1..Len(lines) :
                       /\ i = 1 => lines[i] = Line("downloading", 100, "")
                       /\ i = 2 => lines[i] = Line("downloading", 150, "")
                       /\ (i > 2 /\ i <= 2 + session[s].tick)
                          => /\ lines[i].status = "downloading"
                             /\ lines[i].progress <= 750
                             /\ lines[i].progress >= 150
                /\ Cardinality(TerminalLines(lines)) <= 1
                /\ \A i \in TerminalLines(lines) : i = Len(lines) /\ session[s].pc = "closed"
                /\ \A i \in TerminalLines(lines) :
                       /\ lines[i].status = "complete"
                          => /\ job[s].pc = "returned"
                             /\ lines[i].progress = 1000
                             /\ lines[i - 1] = Line("downloading", 850, "")
                       /\ lines[i].status = "error"
                          => job[s].pc = "raised" /\ lines[i].error = job[s].exc
                /\ (session[s].pc = "closed" /\ known)
                   => /\ Cardinality(TerminalLines(lines)) = 1
                      /\ session[s].response.status = 200
                /\ ~known
                   => /\ session[s].pc = "closed"
                      /\ session[s].response.status = 400
                      /\ lines = <<>>
                      /\ ~session[s].submitted
                      /\ job[s].pc = "none"

\* A stream that ended with complete after its ticks had reached the cap
C31_Witness ==
    \E s \in Sessions :
        /\ session[s].kind = "download"
        /\ session[s].pc = "closed"
        /\ session[s].tick > 120
        /\ session[s].sent[Len(session[s].sent)].status = "complete"
        /\ session[s].sent[2 + session[s].tick].progress = 750

\* A download of an unknown model, refused
C31_UnknownRefused ==
    \E s \in Sessions :
        /\ session[s].kind = "download"
        /\ session[s].response.status = 400

\* C32 as stated: whenever _handler_initialized is true _handler is an
\* instance, and the handler _load_handler returned to a job is an instance.
C32_InitializedHasHandler ==
    /\ _handler_initialized => _handler # "None"
    /\ \A s \in Sessions : job[s].pc = "prepare" => job[s].handler # "None"

\* The first half of C32 alone: _handler_initialized implies an instance
C32_FlagImpliesInstance == _handler_initialized => _handler # "None"

\* The second half of C32 alone: no job is given None
C32_NoneNeverReturned ==
    \A s \in Sessions : job[s].pc = "prepare" => job[s].handler # "None"

\* The positions of a job at which its next statement is _throw_if_cancelled()
Checkpoints == {"chk1", "prepare", "enter", "after", "loop"}

\* C33: a WebSocket session that ends while its submitted job has not finished
\* ends with the token set.  From then on the job's next step at a checkpoint
\* of the worker raises the cancellation error, an invocation of the progress
\* callback raises it inside the model call and publishes nothing, and the
\* job writes no further file and returns no result.
C33_EndedSessionCancelsJob ==
    [][\A s \in Sessions :
          /\ (/\ session[s].kind = "ws"
              /\ session[s].pc # "closed" /\ session'[s].pc = "closed"
              /\ session[s].submitted /\ ~Finished(s))
             => session'[s].cancel_event
          /\ (/\ session[s].kind = "ws"
              /\ session[s].pc = "closed" /\ session[s].cancel_event
              /\ job'[s] # job[s])
             => /\ job[s].pc \in Checkpoints
                   => (job'[s].pc = "raised" /\ job'[s].exc = "GenerationCancelledError")
                /\ (job[s].pc = "gen" /\ job'[s].cb > job[s].cb)
                   => (job'[s].cb_raised /\ job'[s].published = job[s].published)
                /\ job'[s].pc # "returned"
                /\ job'[s].files = job[s].files]_vars

\* A session that ended on its client's disconnect while its job was running,
\* the job then ended by the checkpoint in the progress callback
C33_Witness ==
    \E s \in Sessions :
        /\ session[s].kind = "ws"
        /\ session[s].pc = "closed"
        /\ session[s].cancel_called
        /\ job[s].pc = "raised"
        /\ job[s].exc = "GenerationCancelledError"
        /\ job[s].cb_raised

\* The positions of a job inside _load_handler
Loading == {"ld_check", "ld_ensure", "ld_new", "ld_init", "ld_set", "ld_ret"}

\* C34 as stated: when a job's load fails _handler_initialized is false, and a
\* job submitted after a job has failed is given a handler whose
\* initialization succeeded, never one that initialize_service left not
\* enabled.
C34_FailedLoadLeavesNoHandler ==
    [][\A s \in Sessions :
          /\ (job[s].pc \in Loading /\ job'[s].pc = "raised")
             => ~_handler_initialized'
          /\ (session[s].after_raised /\ job[s].pc = "ld_ret" /\ job'[s].pc = "prepare")
             => job'[s].handler \in enabled']_vars

\* The second half of C34 alone, as a predicate of the state: a job submitted
\* after a failure holds a handler that is enabled
C34_LaterJobGetsEnabledHandler ==
    \A s \in Sessions :
        (session[s].after_raised /\ job[s].pc = "prepare") => job[s].handler \in enabled

\* C35: a request whose quality_mode or task_type is none of the enumerated
\* values is refused by neither endpoint: once looked at, its job is
\* submitted.  The model is called with 8 steps for the unknown quality mode,
\* and for the unknown task type with the text2music instruction, no source
\* audio, no reference audio, and the unknown value as its task type.
C35_UnknownValuesAccepted ==
    \A s \in Sessions :
        LET r == session[s].request
            k == job[s].gen_kwargs
            odd_quality == r.quality_mode \notin {"draft", "fast", "quality"}
            odd_task == r.task_type \notin {"text2music", "cover", "repaint"}
        IN  (odd_quality \/ odd_task) =>
                /\ (\/ session[s].kind = "http"
                    \/ session[s].kind = "ws" /\ session[s].pc \notin {"accept", "parse"})
                   => /\ session[s].submitted
                      /\ session[s].response.status # 400
                      /\ \A i \in 1..Len(session[s].sent) :
                             session[s].sent[i].type = "error" => job[s].pc = "raised"
                /\ (k.called /\ odd_quality) => k.inference_steps = 8
                /\ (k.called /\ odd_task)
                   => /\ k.instruction =
                             "Fill the audio semantic mask based on the given conditions:"
                      /\ k.src_audio = "None"
                      /\ k.reference_audio = "None"
                      /\ k.task_type = r.task_type

\* A WebSocket session whose request has an unknown quality mode and an unknown
\* task type, its job completed and the complete frame sent
C35_Witness ==
    \E s \in Sessions :
        /\ session[s].kind = "ws"
        /\ session[s].request.quality_mode = "turbo"
        /\ session[s].request.task_type = "remix"
        /\ job[s].gen_kwargs.called
        /\ job[s].gen_kwargs.task_type = "remix"
        /\ job[s].pc = "returned"
        /\ session[s].sent # <<>>
        /\ session[s].sent[Len(session[s].sent)].type = "complete"

\* An HTTP request with an unknown task type that names a source audio,
\* answered 200
C35_HttpAccepted ==
    \E s \in Sessions :
        /\ session[s].kind = "http"
        /\ session[s].request.task_type = "remix"
        /\ session[s].request.source_audio_path = "exists"
        /\ session[s].response.status = 200

\* C36 as stated: a call of generate_with_mlx runs generate_with_transformers
\* at most once, and when that run has raised the call has ended with the
\* exception.
C36_GenerationAtMostOnce ==
    \A s \in Sessions :
        session[s].kind = "script" =>
            /\ Len(session[s].attempts) <= 1
            /\ (session[s].attempts # <<>>
                /\ session[s].attempts[Len(session[s].attempts)] = "raised")
               => session[s].pc = "sc_raised"

\* What holds of the calls that do not enter generate_with_transformers inside
\* the try block: one run, its failure raised
C36_OnceOutsideTry ==
    \A s \in Sessions :
        (session[s].kind = "script" /\ session[s].env # "no state_dict.bin") =>
            /\ Len(session[s].attempts) <= 1
            /\ (session[s].attempts # <<>> /\ session[s].attempts[1] = "raised")
               => session[s].pc = "sc_raised"

====
